---- MODULE Spec2Model ----
(***************************************************************************)
(* C-Script compiler driver (cscriptc): the lowering passes, the enum      *)
(* registry and switch-exhaustiveness checker, the two-pass PGO loop and   *)
(* the adaptive build-flag learner (cs_vral), as state machines.           *)
(*                                                                         *)
(* Text is modelled as a sequence of tokens (whitespace between tokens is  *)
(* what the regexes' \s* and the scanners' isspace loops skip).  Every     *)
(* component has its own specification; the variables of the components a  *)
(* specification does not exercise stay at their idle values.              *)
(***************************************************************************)
EXTENDS Integers, Sequences, FiniteSets, TLC

VARIABLES
    \* ---- PGO helper (read_profile_counts / select_hot_functions) ----
    profFile,      \* contents of the counts file: a sequence of lines, or NoFile
    counts,        \* map<string, unsigned long long> returned by read_profile_counts
    hot,           \* set<string> returned by select_hot_functions
    topN,          \* the topN argument of select_hot_functions
    sorted,        \* the vector v as std::sort left it
    ppc,           \* position of the PGO helper: "start", "read", "selected"
    \* ---- adaptive learner (namespace cs_vral) ----
    g_db,          \* std::map<std::string, LearnStat>
    g_total,       \* uint64_t g_total
    g_loaded,      \* bool g_loaded
    g_mu,          \* std::mutex g_mu: "free" or "held"
    dbFile,        \* the file at db_path(): [exists, lines]
    dbPerm,        \* what the file system lets the process do with that file:
                   \* "rw", "ro" (ofstream fails to open), "wo" (ifstream fails)
    outChoice,     \* the Choice build_cmd_adaptive last returned (its key), or NoChoice
    lpc,           \* the compiler process: "run", or "blocked" on g_mu
    lastOp,        \* the last cs_vral call: its name, key, reward and the
                   \* statistic of the key as the call found it after loading
    lbuild,        \* the build outcome the call in lastOp was given (learn_commit)
    lreads,        \* how often this process has opened the file for reading
    ldurs,         \* the compile times the builds of this run can take (ms)
    \* ---- enum registry and exhaustiveness checker ----
    impl,          \* which source file's functions run: "cscriptc" or "alternate"
    body,          \* the body text, a sequence of tokens
    enums,         \* map<string, EnumInfo> enums
    xres,          \* how check_exhaustiveness_or_die ended
    xpc,           \* "body", "collected", "checked" or "died"
    xout,          \* the text lower_enum_bang_and_collect returned
    \* ---- build driver ----
    variant,       \* which driver runs: "main", "alternate" or "ritual"
    dcfg,          \* Config, as far as the driver's control flow reads it
    dpc,           \* position of the driver
    drc,           \* what the invocation returns, once dpc = "exit"
    dlog,          \* what the invocation did, in order
    dprof,         \* the counts file at profPath
    dhot,          \* set<string> hotFns
    dx,            \* the command-line switches that decide what is kept on disk
    dfiles,        \* the files of this invocation that are on disk
    \* ---- lowering passes ----
    lsrc,          \* the source text, a sequence of tokens
    ltext,         \* the text after the passes run so far
    lhot,          \* the hotFns argument of softline_lower
    linst,         \* the instrument argument of softline_lower
    lpass,         \* the last pass run: "source", "enum", "unsafe", "match", "softline"
    lround,        \* 1: the pipeline on the source, 2: on its own output
    lfirst,        \* the output of round 1
    \* ---- two compiler processes over one learning-store file ----
    sfile,         \* the file at db_path(), which both processes open
    p_db,          \* g_db of each process
    p_total,       \* g_total of each process
    p_loaded,      \* g_loaded of each process
    p_pc,          \* each process: "run", or "locked" inside learn_update
    p_left,        \* learn_update calls each process has still to make
    sdone,         \* learn_update calls that have returned, over both processes
    sinit,         \* the arm's trials in the file before either process started
    \* ---- one exhaustive switch of the generated program ----
    CS_HARDLINE,   \* the translation unit defines CS_HARDLINE
    relaxedMacros, \* the site is written with the macros of prelude_exhaustive_relaxed
    labels,        \* the enumerators the site has a CS_CASE for
    cs_v,          \* __cs_v, the value of the switch expression
    cs_hit,        \* __cs_hit
    stderrOut,     \* what the program has written to stderr
    rpc,           \* "site", "switched", "continued" or "aborted"
    \* ---- the two passes of one profiling invocation ----
    pdrv,          \* the driver: "main", "alternate" or "ritual"
    pbody,         \* the body the driver lowers
    phot,          \* hotFns, as selected after the instrumented run
    plowered,      \* the text the driver keeps for both passes
    punit1,        \* the C text of the instrumented pass
    punit2,        \* the C text of the final pass
    ppos,          \* "start", "lowered", "instrumented", "final" or "exit"
    \* ---- threads of one process calling into cs_vral ----
    t_file,        \* the file at db_path()
    t_db,          \* g_db, shared by the threads
    t_total,       \* g_total
    t_loaded,      \* g_loaded
    t_mu,          \* g_mu: 0 when free, else the thread whose lock_guard holds it
    t_pc,          \* each thread: "out", "locked", "loaded" or "stored"
    t_call,        \* the function each thread is in: "learn_update" or "get_stat"
    t_s,           \* each thread's view of g_db[key] and g_total after loading
    t_left,        \* calls each thread has still to make
    t_done,        \* learn_update calls that have returned, per thread
    t_base,        \* g_db[key] and g_total as the first load_db_unlocked set them
    \* ---- one run of the instrumented program ----
    CS_PROFILE_OUT,  \* getenv("CS_PROFILE_OUT") is not NULL
    GNUC,            \* the compiler defines __GNUC__ or __clang__
    atexitFns,       \* the functions registered with atexit
    cs_prof_tbl,     \* _cs_prof_tbl[0 .. _cs_prof_len)
    hitCalls,        \* how often cs_prof_hit was called with each name
    countsOut,       \* the file at the path in CS_PROFILE_OUT
    ipc              \* "start", "main", "exited" or "aborted"

profVars == <<profFile, counts, hot, topN, sorted, ppc>>
learnVars == <<g_db, g_total, g_loaded, g_mu, dbFile, dbPerm, outChoice, lpc, lastOp,
              lbuild, lreads, ldurs>>

exhVars == <<impl, body, enums, xres, xpc, xout>>

drvVars == <<variant, dcfg, dpc, drc, dlog, dprof, dhot, dx, dfiles>>

lowerVars == <<lsrc, ltext, lhot, linst, lpass, lround, lfirst>>

sharedVars == <<sfile, p_db, p_total, p_loaded, p_pc, p_left, sdone, sinit>>

runVars == <<CS_HARDLINE, relaxedMacros, labels, cs_v, cs_hit, stderrOut, rpc>>

passVars == <<pdrv, pbody, phot, plowered, punit1, punit2, ppos>>

thrVars == <<t_file, t_db, t_total, t_loaded, t_mu, t_pc, t_call, t_s, t_left, t_done,
            t_base>>

instrVars == <<CS_PROFILE_OUT, GNUC, atexitFns, cs_prof_tbl, hitCalls, countsOut, ipc>>

vars == <<profVars, learnVars, exhVars, drvVars, lowerVars, sharedVars, runVars, passVars,
          thrVars, instrVars>>

\* what a step of one component leaves alone
notProf == <<learnVars, exhVars, drvVars, lowerVars, sharedVars, runVars, passVars, thrVars, instrVars>>
notLearn == <<profVars, exhVars, drvVars, lowerVars, sharedVars, runVars, passVars, thrVars, instrVars>>
notExh == <<profVars, learnVars, drvVars, lowerVars, sharedVars, runVars, passVars, thrVars, instrVars>>
notDrv == <<profVars, learnVars, lowerVars, sharedVars, runVars, passVars, thrVars, instrVars>>
notLower == <<profVars, learnVars, exhVars, drvVars, sharedVars, runVars, passVars, thrVars, instrVars>>
notShared == <<profVars, learnVars, exhVars, drvVars, lowerVars, runVars, passVars, thrVars, instrVars>>
notRun == <<profVars, learnVars, exhVars, drvVars, lowerVars, sharedVars, passVars, thrVars, instrVars>>
notPass == <<profVars, learnVars, exhVars, drvVars, lowerVars, sharedVars, runVars, thrVars, instrVars>>
notThr == <<profVars, learnVars, exhVars, drvVars, lowerVars, sharedVars, runVars, passVars,
           instrVars>>
notInstr == <<profVars, learnVars, exhVars, drvVars, lowerVars, sharedVars, runVars, passVars,
             thrVars>>

\* ===================================================================== bounds
MaxNest == 2       \* depth of nested @unsafe blocks in a source
MaxStmts == 2      \* statements in a source
MaxToks == 4       \* switch-site tokens in a body
MaxLines == 3      \* lines in a counts file
MaxCount == 2      \* largest count written on one line
MaxTopN  == 2      \* largest topN tried
MaxUpdates == 2    \* learn_update calls one of two concurrent processes makes
MaxTrials == 3     \* learn_update calls recorded in the store
MaxKeys  == 2      \* distinct keys in the store
MaxValue == 2      \* largest value a switch expression takes

\* ===================================================================== helpers
Min(a, b) == IF a < b THEN a ELSE b

RECURSIVE Flatten(_)
Flatten(ss) == IF ss = <<>> THEN <<>> ELSE Head(ss) \o Flatten(Tail(ss))

RECURSIVE SeqsUpTo(_, _)
SeqsUpTo(S, n) ==
    IF n = 0 THEN { <<>> }
    ELSE LET shorter == SeqsUpTo(S, n - 1)
         IN  shorter \cup { Append(s, x) : s \in { t \in shorter : Len(t) = n - 1 }, x \in S }

\* ============================================================ PGO helper
\* One whitespace-separated word of the counts file.  A word is either a
\* run of digits (isnum, value v) or some other text (name).
Word(isnum, name, v) == [isnum |-> isnum, name |-> name, v |-> v]
NameW(s) == Word(FALSE, s, 0)
NumW(n)  == Word(TRUE, ToString(n), n)

Symbols == {"f", "g", "h"}
NoFile  == << <<NameW("<absent>")>> >>   \* marker: the path does not exist

WellFormedLines == { <<NameW(s), NumW(c)>> : s \in Symbols, c \in 0..MaxCount }
MalformedLines  == { <<NameW("f")>>,                   \* symbol without a count
                     <<NameW("f"), NameW("x")>>,       \* count is not a number
                     <<>> }                            \* blank line
FileLines == WellFormedLines \cup MalformedLines
Files == SeqsUpTo(FileLines, MaxLines) \cup {NoFile}

\* operator>>(istream&, string&) then operator>>(istream&, unsigned long long&)
\* over the words of the stream; the loop ends at the first failed extraction
\* (end of file, or a word that does not parse as an unsigned integer).
RECURSIVE ReadLoop(_, _)
ReadLoop(ws, m) ==
    IF Len(ws) < 2 THEN m                     \* f >> name or f >> cnt hits EOF
    ELSE LET name == ws[1].name
             cntW == ws[2]
         IN  IF ~cntW.isnum THEN m            \* failbit: while-condition false
             ELSE LET old == IF name \in DOMAIN m THEN m[name] ELSE 0
                      m2  == [k \in DOMAIN m \cup {name} |->
                                 IF k = name THEN old + cntW.v ELSE m[k]]
                  IN  ReadLoop(SubSeq(ws, 3, Len(ws)), m2)

EmptyMap == [k \in {} |-> 0]

read_profile_counts(file) ==
    IF file = NoFile THEN EmptyMap            \* ifstream fails to open
    ELSE ReadLoop(Flatten(file), EmptyMap)

\* The orders std::sort may leave v in: every permutation of the entries of
\* m whose counts are non-increasing (the comparator looks at .second only,
\* and std::sort is not stable).
SortOrders(m) ==
    LET n == Cardinality(DOMAIN m)
    IN  { v \in [1..n -> DOMAIN m] :
            /\ \A i, j \in 1..n : i # j => v[i] # v[j]
            /\ \A i \in 1..n : i < n => m[v[i]] >= m[v[i + 1]] }

\* mutant of HotOf: the `v[i].second > 0` test is dropped
HotOf_NoPositiveFilter(m, v, N) == { v[i] : i \in 1..Min(Len(v), N) }

HotOf(m, v, N) == { v[i] : i \in { j \in 1..Min(Len(v), N) : m[v[j]] > 0 } }

\* every result select_hot_functions(m, N) can return
select_hot_functions(m, N) == { HotOf(m, v, N) : v \in SortOrders(m) }

ProfInit ==
    /\ profFile \in Files
    /\ counts = EmptyMap
    /\ hot = {}
    /\ topN = 0
    /\ sorted = <<>>
    /\ ppc = "start"

ReadProfile ==
    /\ ppc = "start"
    /\ counts' = read_profile_counts(profFile)
    /\ ppc' = "read"
    /\ UNCHANGED <<profFile, hot, topN, sorted>>
    /\ UNCHANGED notProf

SelectHot ==
    /\ ppc = "read"
    /\ \E N \in 0..MaxTopN : \E v \in SortOrders(counts) :
          /\ topN' = N
          /\ sorted' = v
          /\ hot' = HotOf(counts, v, N)
    /\ ppc' = "selected"
    /\ UNCHANGED <<profFile, counts>>
    /\ UNCHANGED notProf

ProfNext == ReadProfile \/ SelectHot

ProfIdle ==
    /\ profFile = NoFile /\ counts = EmptyMap /\ hot = {} /\ topN = 0
    /\ sorted = <<>> /\ ppc = "idle"

\* ====================================================== adaptive learner
\* A double that is a finite decimal: m * 10^(-x), kept normalised.  The
\* model's arithmetic is exact (binary rounding of double is not modelled).
Dec(m, x) == [m |-> m, x |-> x]

RECURSIVE Pow10(_)
Pow10(k) == IF k = 0 THEN 1 ELSE 10 * Pow10(k - 1)

RECURSIVE DNorm(_)
DNorm(d) == IF d.x > 0 /\ d.m % 10 = 0 THEN DNorm(Dec(d.m \div 10, d.x - 1)) ELSE d

Max(a, b) == IF a > b THEN a ELSE b
Abs(a) == IF a < 0 THEN -a ELSE a

DNeg(d) == Dec(-d.m, d.x)

\* a < b
DLess(a, b) ==
    LET x == Max(a.x, b.x)
    IN  a.m * Pow10(x - a.x) < b.m * Pow10(x - b.x)

DAdd(a, b) ==
    LET x == Max(a.x, b.x)
    IN  DNorm(Dec(a.m * Pow10(x - a.x) + b.m * Pow10(x - b.x), x))

\* decimal places the model keeps of a double
DoublePlaces == 9

\* a * k / 10 rounded to the nearest integer, for a >= 0
RoundTenths(a, k) ==
    LET low == (a % 10) * k
    IN  (a \div 10) * k + (low \div 10) + (IF low % 10 >= 5 THEN 1 ELSE 0)

\* d * k / 10
DTenths(d, k) ==
    IF d.x < DoublePlaces THEN DNorm(Dec(d.m * k, d.x + 1))
    ELSE DNorm(Dec((IF d.m < 0 THEN -1 ELSE 1) * RoundTenths(Abs(d.m), k), d.x))

DZero == Dec(0, 0)
DOne == Dec(1, 0)
DMinusOne == Dec(-1, 0)

RECURSIVE NumDigits(_)
NumDigits(a) == IF a < 10 THEN 1 ELSE 1 + NumDigits(a \div 10)

\* significant digits ostream << double keeps (default precision)
StreamPrecision == 6

\* operator<<(ostream&, double) followed by operator>>(istream&, double&):
\* the value rounded to StreamPrecision significant digits
FmtDouble(d) ==
    LET nd == NumDigits(Abs(d.m))
    IN  IF nd <= StreamPrecision THEN d
        ELSE LET k  == nd - StreamPrecision
                 q  == Abs(d.m) \div Pow10(k)
                 r  == Abs(d.m) % Pow10(k)
                 a  == IF 2 * r >= Pow10(k) THEN q + 1 ELSE q
                 sm == IF d.m < 0 THEN -a ELSE a
             IN  IF d.x >= k THEN DNorm(Dec(sm, d.x - k))
                 ELSE Dec(sm * Pow10(k - d.x), 0)

LearnStat(n, sum, ema, last) == [n |-> n, sum |-> sum, ema |-> ema, last |-> last]
EmptyStat == LearnStat(0, DZero, DZero, DZero)
EmptyDb == [k \in {} |-> EmptyStat]

\* make_key over the candidate arms of build_cmd_adaptive, in loop order
Arms == << "build:opt=O2;lto=0;fm=0", "build:opt=O2;lto=0;fm=1",
           "build:opt=O2;lto=1;fm=0", "build:opt=O2;lto=1;fm=1",
           "build:opt=O3;lto=0;fm=0", "build:opt=O3;lto=0;fm=1",
           "build:opt=O3;lto=1;fm=0", "build:opt=O3;lto=1;fm=1" >>
ArmKeys == { Arms[i] : i \in 1..Len(Arms) }
\* prior = (opt == "O3" ? 0.02 : 0.0) + (lto ? 0.01 : 0.0), in millionths
PriorMicro == << 0, 0, 10000, 10000, 20000, 20000, 30000, 30000 >>
NoChoice == "<none>"

\* c * sqrt(log(totalN) / n) for c = 1.2, in millionths (row totalN, column n)
BonusTable == <<
    <<0, 0, 0, 0, 0, 0, 0, 0>>,
    <<999066, 706446, 576811, 499533, 446796, 407867, 377611, 353223>>,
    <<1257776, 889382, 726178, 628888, 562495, 513485, 475395, 444691>>,
    <<1412892, 999066, 815734, 706446, 631865, 576811, 534023, 499533>>,
    <<1522363, 1076474, 878937, 761182, 680822, 621502, 575399, 538237>>,
    <<1606279, 1135811, 927386, 803140, 718350, 655761, 607117, 567906>>,
    <<1673951, 1183662, 966456, 836975, 748613, 683387, 632694, 591831>>,
    <<1730432, 1223600, 999066, 865216, 773873, 706446, 654042, 611800>> >>

DecToMicro(d) ==
    IF d.x <= 6 THEN d.m * Pow10(6 - d.x)
    ELSE IF d.m >= 0 THEN d.m \div Pow10(d.x - 6) ELSE -((-d.m) \div Pow10(d.x - 6))

StatOf(db, key) == IF key \in DOMAIN db THEN db[key] ELSE EmptyStat

\* bonus of score_ucb: 1.0 for an untried arm
BonusMicro(n, totalN) == IF n = 0 THEN 1000000 ELSE BonusTable[Max(1, totalN)][n]

score_ucb(db, i, totalN) ==
    LET st == StatOf(db, Arms[i])
        avg == IF st.n # 0 THEN DecToMicro(st.ema) ELSE 0
    IN  PriorMicro[i] + avg + BonusMicro(st.n, totalN)

\* the greedy loop: the first arm whose score is strictly greater than all before it
GreedyIndex(db, total) ==
    LET tn == IF total # 0 THEN total ELSE 1
    IN  CHOOSE i \in 1..Len(Arms) :
          /\ \A j \in 1..Len(Arms) : score_ucb(db, j, tn) <= score_ucb(db, i, tn)
          /\ \A j \in 1..(i - 1) : score_ucb(db, j, tn) < score_ucb(db, i, tn)

RECURSIVE SumN(_, _)
SumN(db, keys) ==
    IF keys = {} THEN 0
    ELSE LET k == CHOOSE k \in keys : TRUE IN db[k].n + SumN(db, keys \ {k})

\* load_db_unlocked: what g_db and g_total become
Readable == dbPerm # "wo" /\ dbFile.exists
Writable == dbPerm # "ro"
LoadedDb == IF g_loaded THEN g_db ELSE IF Readable THEN dbFile.lines ELSE EmptyDb
LoadedTotal ==
    IF g_loaded THEN g_total
    ELSE IF Readable THEN SumN(dbFile.lines, DOMAIN dbFile.lines) ELSE 0
\* the ifstream of load_db_unlocked is constructed when g_loaded is false
LoadedReads == IF g_loaded THEN lreads ELSE lreads + 1

FmtStat(st) == LearnStat(st.n, FmtDouble(st.sum), FmtDouble(st.ema), FmtDouble(st.last))

\* save_db_unlocked: ofstream(trunc) and one line per entry of g_db; when the
\* file cannot be opened nothing is written
SavedFile(db) ==
    IF Writable THEN [exists |-> TRUE, lines |-> [k \in DOMAIN db |-> FmtStat(db[k])]]
    ELSE dbFile

\* mutant of UpdatedStat: the smoothing weights are swapped
UpdatedStat_SwappedAlpha(st, reward) ==
    LearnStat(st.n + 1, DAdd(st.sum, reward),
              IF st.n + 1 = 1 THEN reward ELSE DAdd(DTenths(st.ema, 2), DTenths(reward, 8)),
              reward)

\* the body of learn_update on LearnStat& s
UpdatedStat(st, reward) ==
    LearnStat(st.n + 1, DAdd(st.sum, reward),
              IF st.n + 1 = 1 THEN reward ELSE DAdd(DTenths(st.ema, 8), DTenths(reward, 2)),
              reward)

Rewards == {DOne, DMinusOne}
LearnKeys == {"manual:x"}

\* build_rc and compile_ms as learn_commit is given them
BuildRcs == {0, 1}
Durations == {-1, 0, 8000, 200000}
Build(rc, ms) == [rc |-> rc, ms |-> ms]
NoBuild == Build(-1, 0)

\* std::tanh(ms / 8000.0) as a double: 0 at 0, tanh(1.0) to six places, and
\* exactly 1.0 from x = 22 on (1 - tanh(x) is then below half an ulp of 1.0)
Tanh8000(ms) ==
    IF ms = 0 THEN DZero
    ELSE IF ms = 8000 THEN Dec(761594, 6)
    ELSE DOne

\* mutant of CommitReward: the speed bonus is not scaled by 0.2
CommitReward_UnscaledBonus(rc, ms) ==
    IF rc = 0 THEN DAdd(DOne, DNeg(Tanh8000(Max(0, ms)))) ELSE DMinusOne

\* the reward learn_commit computes
CommitReward(rc, ms) ==
    LET r == IF rc = 0 THEN DOne ELSE DMinusOne
    IN  IF rc = 0
        THEN LET speedBonus == DNeg(DTenths(Tanh8000(Max(0, ms)), 2))
             IN  DAdd(r, speedBonus)
        ELSE r

Op(name, key, reward, pre) == [name |-> name, key |-> key, reward |-> reward, pre |-> pre]
NoOp == Op("none", NoChoice, DZero, EmptyStat)

LearnInit ==
    /\ g_db = EmptyDb
    /\ g_total = 0
    /\ g_loaded = FALSE
    /\ g_mu = "free"
    /\ dbFile = [exists |-> FALSE, lines |-> EmptyDb]
    /\ dbPerm \in {"rw", "ro", "wo"}
    /\ outChoice = NoChoice
    /\ lpc = "run"
    /\ lastOp = NoOp
    /\ lbuild = NoBuild
    /\ lreads = 0
    /\ ldurs = {0}

\* the statistics earlier runs left in the file: reward("x") once, and
\* scan_and_record's learn_update(key, +0.02) for a directive
EarlierKeys == << "manual:x", "directive:hardline", "directive:profile" >>
EarlierStat(key) ==
    IF key = "manual:x" THEN LearnStat(1, DOne, DOne, DOne)
    ELSE LearnStat(1, Dec(2, 2), Dec(2, 2), Dec(2, 2))
EarlierDb ==
    LET keys == { EarlierKeys[i] : i \in 1..Min(MaxKeys - 1, Len(EarlierKeys)) }
    IN  [k \in keys |-> EarlierStat(k)]

\* a new process over a store earlier runs filled, with builds of any duration
CommitInit ==
    /\ g_db = EmptyDb
    /\ g_total = 0
    /\ g_loaded = FALSE
    /\ g_mu = "free"
    /\ dbFile = [exists |-> TRUE, lines |-> EarlierDb]
    /\ dbPerm \in {"rw", "ro"}
    /\ outChoice = NoChoice
    /\ lpc = "run"
    /\ lastOp = NoOp
    /\ lbuild = NoBuild
    /\ lreads = 0
    /\ ldurs = Durations

\* learn_update(key, reward)
learn_update(key, reward) ==
    /\ lpc = "run" /\ g_mu = "free"
    /\  LET db0 == LoadedDb
            pre == StatOf(db0, key)
            db1 == [k \in DOMAIN db0 \cup {key} |->
                       IF k = key THEN UpdatedStat(pre, reward) ELSE db0[k]]
        IN  /\ LoadedTotal < MaxTrials
            /\ Cardinality(DOMAIN db1) <= MaxKeys
            /\ g_db' = db1
            /\ g_total' = LoadedTotal + 1
            /\ g_loaded' = TRUE
            /\ lreads' = LoadedReads
            /\ dbFile' = SavedFile(db1)
            /\ lastOp' = Op("learn_update", key, reward, pre)
    /\ UNCHANGED <<g_mu, dbPerm, outChoice, lpc, ldurs>>
    /\ UNCHANGED notLearn

\* learn_commit(choice, build_rc, compile_ms) for the arm build_cmd_adaptive chose
learn_commit ==
    /\ outChoice # NoChoice
    /\ \E build_rc \in BuildRcs, compile_ms \in ldurs :
          /\ lbuild' = Build(build_rc, compile_ms)
          /\ learn_update(outChoice, CommitReward(build_rc, compile_ms))

\* reward(name, r) / penalize(name, r): learn_update on a key of the caller's
manual_update ==
    /\ lbuild' = NoBuild
    /\ \E key \in LearnKeys, reward \in Rewards : learn_update(key, reward)

\* build_cmd_adaptive, exploration branch (uni(prng) < eps): any arm
build_cmd_adaptive_explore ==
    /\ lpc = "run" /\ g_mu = "free"
    /\ \E i \in 1..Len(Arms) :
        LET db0 == LoadedDb
            db1 == [k \in DOMAIN db0 \cup {Arms[i]} |-> StatOf(db0, k)]
        IN  /\ Cardinality(DOMAIN db1) <= MaxKeys
            /\ g_db' = db1
            /\ g_total' = LoadedTotal
            /\ g_loaded' = TRUE
            /\ lreads' = LoadedReads
            /\ dbFile' = SavedFile(db1)
            /\ outChoice' = Arms[i]
            /\ lastOp' = Op("build_cmd_adaptive:explore", Arms[i], DZero, StatOf(db0, Arms[i]))
    /\ lbuild' = NoBuild
    /\ UNCHANGED <<g_mu, dbPerm, lpc, ldurs>>
    /\ UNCHANGED notLearn

\* build_cmd_adaptive, greedy branch: score_ucb calls get_stat, which locks
\* g_mu while build_cmd_adaptive's lock_guard holds it.  Relocking a
\* std::mutex the thread owns is undefined: the thread blocks for ever, or
\* the lock is granted and the loop runs to its end.
build_cmd_adaptive_greedy ==
    /\ lpc = "run" /\ g_mu = "free"
    /\ \E granted \in BOOLEAN :
        LET db0 == LoadedDb
            i   == GreedyIndex(db0, LoadedTotal)
            db1 == [k \in DOMAIN db0 \cup {Arms[i]} |-> StatOf(db0, k)]
        IN  /\ g_loaded' = TRUE
            /\ lreads' = LoadedReads
            /\ g_total' = LoadedTotal
            /\ IF granted
               THEN /\ Cardinality(DOMAIN db1) <= MaxKeys
                    /\ g_db' = db1
                    /\ dbFile' = SavedFile(db1)
                    /\ outChoice' = Arms[i]
                    /\ lastOp' = Op("build_cmd_adaptive:greedy", Arms[i], DZero, StatOf(db0, Arms[i]))
                    /\ UNCHANGED <<g_mu, lpc>>
               ELSE /\ g_db' = db0
                    /\ g_mu' = "held"
                    /\ lpc' = "blocked"
                    /\ lastOp' = Op("build_cmd_adaptive:greedy", NoChoice, DZero, EmptyStat)
                    /\ UNCHANGED <<dbFile, outChoice>>
    /\ lbuild' = NoBuild
    /\ UNCHANGED <<dbPerm, ldurs>>
    /\ UNCHANGED notLearn

\* the compiler exits (or is killed while blocked) and is started again:
\* the statics of a new process
Restart ==
    /\ g_db' = EmptyDb
    /\ g_total' = 0
    /\ g_loaded' = FALSE
    /\ g_mu' = "free"
    /\ outChoice' = NoChoice
    /\ lpc' = "run"
    /\ lastOp' = NoOp
    /\ lbuild' = NoBuild
    /\ lreads' = 0
    /\ UNCHANGED <<dbFile, dbPerm, ldurs>>
    /\ UNCHANGED notLearn

LearnNext ==
    \/ learn_commit
    \/ manual_update
    \/ build_cmd_adaptive_explore
    \/ build_cmd_adaptive_greedy
    \/ Restart

LearnIdle ==
    /\ g_db = EmptyDb /\ g_total = 0 /\ g_loaded = FALSE /\ g_mu = "free"
    /\ dbFile = [exists |-> FALSE, lines |-> EmptyDb] /\ dbPerm = "rw"
    /\ outChoice = NoChoice /\ lpc = "idle" /\ lastOp = NoOp
    /\ lbuild = NoBuild /\ lreads = 0 /\ ldurs = {}


\* ================================= two processes over one learning store
\* Each compiler process has its own statics g_db, g_total, g_loaded and its
\* own g_mu; the file at db_path() is the only thing they share.  A call of
\* learn_update is two steps of its process: lock and load_db_unlocked, then
\* the mutation and save_db_unlocked.
Procs == {1, 2}
SharedKey == Arms[1]

\* ofstream(trunc) and one line per entry of a process's g_db
Persisted(db) == [exists |-> TRUE, lines |-> [k \in DOMAIN db |-> FmtStat(db[k])]]

SharedInit ==
    /\ \E n0 \in 0..1 :
          /\ sinit = n0
          /\ sfile = IF n0 = 0 THEN [exists |-> FALSE, lines |-> EmptyDb]
                     ELSE Persisted([k \in {SharedKey} |-> LearnStat(1, DOne, DOne, DOne)])
    /\ p_db = [p \in Procs |-> EmptyDb]
    /\ p_total = [p \in Procs |-> 0]
    /\ p_loaded = [p \in Procs |-> FALSE]
    /\ p_pc = [p \in Procs |-> "run"]
    /\ p_left \in [Procs -> 1..MaxUpdates]
    /\ sdone = 0

\* learn_update, lines 5517-5518: lock_guard on the process's g_mu, load_db_unlocked
SharedLockLoad(p) ==
    /\ p_pc[p] = "run"
    /\ p_left[p] > 0
    /\ p_db' = [p_db EXCEPT ![p] =
                  IF p_loaded[p] THEN p_db[p]
                  ELSE IF sfile.exists THEN sfile.lines ELSE EmptyDb]
    /\ p_total' = [p_total EXCEPT ![p] =
                  IF p_loaded[p] THEN p_total[p]
                  ELSE IF sfile.exists THEN SumN(sfile.lines, DOMAIN sfile.lines) ELSE 0]
    /\ p_loaded' = [p_loaded EXCEPT ![p] = TRUE]
    /\ p_pc' = [p_pc EXCEPT ![p] = "locked"]
    /\ UNCHANGED <<sfile, p_left, sdone, sinit>>
    /\ UNCHANGED notShared

\* learn_update, lines 5519-5527: the mutation, save_db_unlocked, unlock
SharedUpdateSave(p) ==
    /\ p_pc[p] = "locked"
    /\ \E reward \in Rewards :
        LET db0 == p_db[p]
            db1 == [k \in DOMAIN db0 \cup {SharedKey} |->
                       IF k = SharedKey THEN UpdatedStat(StatOf(db0, SharedKey), reward)
                       ELSE db0[k]]
        IN  /\ p_db' = [p_db EXCEPT ![p] = db1]
            /\ sfile' = Persisted(db1)
    /\ p_total' = [p_total EXCEPT ![p] = p_total[p] + 1]
    /\ p_left' = [p_left EXCEPT ![p] = p_left[p] - 1]
    /\ p_pc' = [p_pc EXCEPT ![p] = "run"]
    /\ sdone' = sdone + 1
    /\ UNCHANGED <<p_loaded, sinit>>
    /\ UNCHANGED notShared

SharedNext == \E p \in Procs : SharedLockLoad(p) \/ SharedUpdateSave(p)

SharedIdle ==
    /\ sfile = [exists |-> FALSE, lines |-> EmptyDb]
    /\ p_db = [p \in Procs |-> EmptyDb]
    /\ p_total = [p \in Procs |-> 0]
    /\ p_loaded = [p \in Procs |-> FALSE]
    /\ p_pc = [p \in Procs |-> "idle"]
    /\ p_left = [p \in Procs |-> 0]
    /\ sdone = 0
    /\ sinit = 0

\* ============================== enum registry and exhaustiveness checker
\* The body is a sequence of tokens: enum declarations and the switch-site
\* macros.  A type name is the sequence of its characters, so that
\* src.find("CS_SWITCH_END(" + Type, q) is a prefix test on names.
Tok(k, name, ms, inner) == [k |-> k, name |-> name, ms |-> ms, inner |-> inner]
Open(T) == Tok("CS_SWITCH_EXHAUSTIVE", T, {}, <<>>)
Case(m) == Tok("CS_CASE", <<>>, {m}, <<>>)
End(T) == Tok("CS_SWITCH_END", T, {}, <<>>)
\* enum! T { ms }
EnumDecl(T, ms) == Tok("enum!", T, ms, <<>>)
\* enum_flags! T { ms }
FlagsDecl(T, ms) == Tok("enum_flags!", T, ms, <<>>)
\* enum! T { enum_flags! F { ms } }: [^}]* ends the declaration of T at the
\* brace that closes F
EnumDeclAround(T, F, ms) == Tok("enum!", T, {}, <<FlagsDecl(F, ms)>>)

IsPrefix(p, s) == Len(p) <= Len(s) /\ SubSeq(s, 1, Len(p)) = p

Impls == {"cscriptc", "alternate"}

\* pairs of type names, the first a prefix of the second
StandardPair == << <<"C">>, <<"C", "M">> >>
LowerCasePair == << <<"k">>, <<"k", "M">> >>
UpperCase == { "A", "B", "C", "D", "E", "F", "G", "H", "I", "J", "K", "L", "M",
               "N", "O", "P", "Q", "R", "S", "T", "U", "V", "W", "X", "Y", "Z" }
\* the first character class of re_flags: [A-ZaZ_]
FlagsFirstChars == UpperCase \cup {"a", "Z", "_"}

\* the declarations of a body: enum! only
StandardDeclarations(p) ==
    { <<>>,
      << EnumDecl(p[1], {"A", "B"}) >>,
      << EnumDecl(p[1], {"A", "B"}), EnumDecl(p[2], {"A"}) >> }

\* the declarations of a body: with an enum_flags!
FlagsDeclarations(p) ==
    { << FlagsDecl(p[1], {"A", "B"}) >>,
      << EnumDecl(p[2], {"A", "B"}), FlagsDecl(p[1], {"A"}) >>,
      << EnumDeclAround(p[2], p[1], {"A", "B"}) >> }

SiteTokens(p) == { Open(p[1]), Open(p[2]), Case("A"), Case("B"), End(p[1]), End(p[2]) }

BodiesOf(decls, p) == { d \o t : d \in decls, t \in SeqsUpTo(SiteTokens(p), MaxToks) }

EnumInfo(ms, fl) == [members |-> ms, is_flags |-> fl]
EmptyEnums == [n \in {} |-> EnumInfo({}, FALSE)]
Put(reg, name, info) ==
    [n \in DOMAIN reg \cup {name} |-> IF n = name THEN info ELSE reg[n]]

\* split_enums on m[2]: the identifiers between the commas.  The body of a
\* declaration around a flags declaration is "enum_flags! F { A, B".
GarbledIdent == "enum_flags! F { A"
split_enums(tok) ==
    IF tok.inner = <<>> THEN tok.ms
    ELSE {GarbledIdent} \cup (tok.inner[1].ms \ {"A"})

\* the loop over re_standard
RECURSIVE StandardLoop(_, _, _)
StandardLoop(src, i, reg) ==
    IF i > Len(src) THEN reg
    ELSE IF src[i].k = "enum!"
         THEN StandardLoop(src, i + 1, Put(reg, src[i].name, EnumInfo(split_enums(src[i]), FALSE)))
         ELSE StandardLoop(src, i + 1, reg)

\* the loop over re_flags, which searches s2 = out: the text emitted for the
\* standard declarations.  "enum_flags!" is in it where a standard body held
\* it; the last match for F is in cs__enum_is_valid_: "enum_flags! F { A:
\* return 1; default: return 0; }".
ValidatorIdent == "A: return 1; default: return 0;"
RECURSIVE FlagsLoop(_, _, _)
FlagsLoop(src, i, reg) ==
    IF i > Len(src) THEN reg
    ELSE IF /\ src[i].k = "enum!"
            /\ src[i].inner # <<>>
            /\ src[i].inner[1].name[1] \in FlagsFirstChars
         THEN FlagsLoop(src, i + 1, Put(reg, src[i].inner[1].name, EnumInfo({ValidatorIdent}, TRUE)))
         ELSE FlagsLoop(src, i + 1, reg)

\* the map lower_enum_bang_and_collect fills
CollectEnums(im, src) ==
    IF im = "cscriptc" THEN StandardLoop(src, 1, EmptyEnums)
    ELSE FlagsLoop(src, 1, StandardLoop(src, 1, EmptyEnums))

\* cs_regex_wrap::append_prefix(out, s, pos - m.length(0), m) appends
\* s[start, endAbs) with start = the start of the match and endAbs =
\* m.prefix().second = the start of the match: nothing.  The text between
\* the end of one match and the start of the next is not copied.
append_prefix(s, start, endAbs) == SubSeq(s, start, endAbs - 1)

\* out.append(s, pos, npos)
Rest(s, pos) == SubSeq(s, pos, Len(s))

\* the C text emitted for one enum! declaration: the typedef over the body
\* as written, cs__enum_is_valid_ with one case label per member, and
\* cs__enum_assert_.  The first two hold what the body held.
EnumEmitted(tok) ==
    << Tok("typedef enum", tok.name, split_enums(tok), tok.inner),
       Tok("cs__enum_is_valid_", tok.name, split_enums(tok), tok.inner),
       Tok("cs__enum_assert_", tok.name, {}, <<>>) >>

\* lower_enum_bang_and_collect, the text it returns: i looks for the next
\* match from pos on
RECURSIVE EnumPass(_, _, _, _)
EnumPass(s, pos, i, out) ==
    IF i > Len(s) THEN out \o Rest(s, pos)
    ELSE IF s[i].k = "enum!"
         THEN EnumPass(s, i + 1, i + 1, (out \o append_prefix(s, i, i)) \o EnumEmitted(s[i]))
         ELSE EnumPass(s, pos, i + 1, out)
EnumLowered(s) == EnumPass(s, 1, 1, <<>>)

\* the C text emitted for one re_flags match: the typedef, _combine and _has
FlagsEmitted(name, ms) ==
    << Tok("typedef enum", name, ms, <<>>),
       Tok("_combine", name, {}, <<>>),
       Tok("_has", name, {}, <<>>) >>

\* the standard loop of the alternate implementation: nothing is appended
\* after the last match, so out holds the emitted text only
RECURSIVE StandardPass(_, _, _)
StandardPass(s, i, out) ==
    IF i > Len(s) THEN out
    ELSE IF s[i].k = "enum!"
         THEN StandardPass(s, i + 1, (out \o append_prefix(s, i, i)) \o EnumEmitted(s[i]))
         ELSE StandardPass(s, i + 1, out)

\* re_flags matches in s2 where the emitted typedef or validator holds
\* "enum_flags! F {" ... "}"
HoldsFlags(tok) ==
    /\ tok.k \in {"typedef enum", "cs__enum_is_valid_"}
    /\ tok.inner # <<>>
    /\ tok.inner[1].name[1] \in FlagsFirstChars

\* the flags loop of the alternate implementation over s2, and the tail
RECURSIVE FlagsPass(_, _, _, _)
FlagsPass(s2, pos, i, out) ==
    IF i > Len(s2) THEN out \o Rest(s2, pos)
    ELSE IF HoldsFlags(s2[i])
         THEN LET ms == IF s2[i].k = "typedef enum" THEN s2[i].inner[1].ms ELSE {ValidatorIdent}
              IN  FlagsPass(s2, i + 1, i + 1,
                      (out \o append_prefix(s2, i, i)) \o FlagsEmitted(s2[i].inner[1].name, ms))
         ELSE FlagsPass(s2, pos, i + 1, out)

\* the text lower_enum_bang_and_collect returns
LoweredEnums(im, src) ==
    IF im = "cscriptc" THEN EnumLowered(src)
    ELSE FlagsPass(StandardPass(src, 1, <<>>), 1, 1, <<>>)

XResult(outcome, type, at, missing) ==
    [outcome |-> outcome, type |-> type, at |-> at, missing |-> missing]
Accepted == XResult("ok", <<>>, 0, {})

\* src.find(key, from) over tokens: the first index >= from that P holds at, or 0
FindOpen(src, from) ==
    LET hits == { j \in from..Len(src) : src[j].k = "CS_SWITCH_EXHAUSTIVE" }
    IN  IF hits = {} THEN 0 ELSE CHOOSE j \in hits : \A h \in hits : j <= h
FindEndKey(src, Type, from) ==
    LET hits == { j \in from..Len(src) : src[j].k = "CS_SWITCH_END" /\ IsPrefix(Type, src[j].name) }
    IN  IF hits = {} THEN 0 ELSE CHOOSE j \in hits : \A h \in hits : j <= h

\* the CS_CASE identifiers of region = src.substr(a, b - a)
SeenIn(src, a, b) == UNION { src[j].ms : j \in { h \in a..(b - 1) : src[h].k = "CS_CASE" } }

\* mutant of SkipFlags: flags reg are checked like standard ones
SkipFlags_Never(im, info) == FALSE

\* if (itE->second.is_flags) { i = b + 1; continue; }  (alternate only)
SkipFlags(im, info) == im = "alternate" /\ info.is_flags

\* the while (true) loop of check_exhaustiveness_or_die, from i
RECURSIVE ScanSites(_, _, _, _)
ScanSites(im, src, reg, i) ==
    LET a == FindOpen(src, i) IN
    IF a = 0 THEN Accepted
    ELSE LET Type == src[a].name
             b == FindEndKey(src, Type, a + 1)
         IN  IF b = 0 THEN XResult("unmatched", Type, a, {})
             ELSE IF Type \notin DOMAIN reg THEN ScanSites(im, src, reg, b + 1)
             ELSE IF SkipFlags(im, reg[Type]) THEN ScanSites(im, src, reg, b + 1)
             ELSE LET missing == reg[Type].members \ SeenIn(src, a, b)
                  IN  IF missing # {} THEN XResult("non-exhaustive", Type, a, missing)
                      ELSE ScanSites(im, src, reg, b + 1)

ExhInit ==
    /\ impl \in Impls
    /\ body \in BodiesOf(StandardDeclarations(StandardPair), StandardPair)
    /\ enums = EmptyEnums
    /\ xres = Accepted
    /\ xpc = "body"
    /\ xout = <<>>

FlagsInit ==
    /\ impl \in Impls
    /\ \E p \in {StandardPair, LowerCasePair} : body \in BodiesOf(FlagsDeclarations(p), p)
    /\ enums = EmptyEnums
    /\ xres = Accepted
    /\ xpc = "body"
    /\ xout = <<>>

lower_enum_bang_and_collect ==
    /\ xpc = "body"
    /\ enums' = CollectEnums(impl, body)
    /\ xout' = LoweredEnums(impl, body)
    /\ xpc' = "collected"
    /\ UNCHANGED <<impl, body, xres>>
    /\ UNCHANGED notExh

\* exit(1) or throw CompilerError on the first error, else return
check_exhaustiveness_or_die ==
    /\ xpc = "collected"
    /\ xres' = ScanSites(impl, body, enums, 1)
    /\ xpc' = IF xres'.outcome = "ok" THEN "checked" ELSE "died"
    /\ UNCHANGED <<impl, body, enums, xout>>
    /\ UNCHANGED notExh

ExhNext == lower_enum_bang_and_collect \/ check_exhaustiveness_or_die

ExhIdle ==
    /\ impl = "cscriptc" /\ body = <<>> /\ enums = EmptyEnums /\ xres = Accepted /\ xpc = "idle" /\ xout = <<>>

\* ========================================================= lowering passes
\* Text between tokens is whitespace.  A token that holds braces of its own
\* (an enum declaration, the C text a pass emits for one) holds them
\* balanced; the braces the passes count or search for are tokens.
Text(t) == Tok("text", <<t>>, {}, <<>>)
Kw(k) == Tok(k, <<>>, {}, <<>>)
LBrace == Kw("{")
RBrace == Kw("}")
\* fn name(args) -> ret => expr;
FnExpr(name) == Tok("fn=>", <<name>>, {}, <<>>)
\* fn name(args) -> ret      (a "{" follows)
FnHead(name) == Tok("fn{", <<name>>, {}, <<>>)
\* match (subject)           (a "{", the arms and a "}" follow)
Match(subject) == Tok("match", <<subject>>, {}, <<>>)

\* mutant of CloseIndex: the region ends at the first "}"
CloseIndex_FirstBrace(s, k, depth) ==
    LET hits == { j \in k..Len(s) : s[j].k = "}" }
    IN  IF hits = {} THEN 0 ELSE CHOOSE j \in hits : \A h \in hits : j <= h

\* the inner while of lower_unsafe_blocks: the index of the "}" that takes
\* depth to 0, or 0 when the text ends first
RECURSIVE CloseIndex(_, _, _)
CloseIndex(s, k, depth) ==
    IF k > Len(s) THEN 0
    ELSE IF s[k].k = "{" THEN CloseIndex(s, k + 1, depth + 1)
    ELSE IF s[k].k = "}"
         THEN IF depth = 1 THEN k ELSE CloseIndex(s, k + 1, depth - 1)
    ELSE CloseIndex(s, k + 1, depth)

RECURSIVE UnsafeScan(_, _, _)
UnsafeScan(s, i, out) ==
    IF i > Len(s) THEN out
    ELSE IF s[i].k = "@unsafe" /\ i + 1 <= Len(s) /\ s[i + 1].k = "{"
         THEN LET k == CloseIndex(s, i + 2, 1)
                  opened == out \o <<LBrace, Kw("CS_UNSAFE_BEGIN;")>>
              IN  IF k = 0 THEN opened \o Rest(s, i + 2)
                  ELSE UnsafeScan(s, k + 1,
                          (opened \o SubSeq(s, i + 2, k - 1)) \o <<Kw("CS_UNSAFE_END;"), RBrace>>)
         ELSE UnsafeScan(s, i + 1, Append(out, s[i]))
lower_unsafe_blocks(s) == UnsafeScan(s, 1, <<>>)

\* ([\s\S]*?)\}: the body of a match block ends at the first "}"
FirstRBrace(s, from) ==
    LET hits == { j \in from..Len(s) : s[j].k = "}" }
    IN  IF hits = {} THEN 0 ELSE CHOOSE j \in hits : \A h \in hits : j <= h

\* pat =>           (the code of the arm follows)
ArmHead(pat) == Tok("=>", <<pat>>, {}, <<>>)

\* t.find("=>") on a piece of the body
HasArrow(piece) ==
    \E j \in 1..Len(piece) :
        piece[j].k = "=>" \/ piece[j].name \in {<<"1 => a();">>, <<"_ => b();">>}

\* while (getline(ss, line, ';')): a Text token ends at its ";", so a piece
\* is the tokens up to and with the next Text token; a piece without "=>"
\* is skipped.  What is left after the last ";" is a piece too.
RECURSIVE SplitCases(_, _, _, _)
SplitCases(region, i, piece, cases) ==
    IF i > Len(region)
    THEN IF HasArrow(piece) THEN cases \o piece ELSE cases
    ELSE IF region[i].k = "text"
         THEN LET line == Append(piece, region[i])
              IN  SplitCases(region, i + 1, <<>>, IF HasArrow(line) THEN cases \o line ELSE cases)
         ELSE SplitCases(region, i + 1, Append(piece, region[i]), cases)

\* { auto __cs_subj = (subject); if (...) { code } ... else { ... } }
MatchEmitted(tok, arms) == Tok("__cs_subj", tok.name, {}, SplitCases(arms, 1, <<>>, <<>>))

RECURSIVE MatchPass(_, _, _, _)
MatchPass(s, pos, i, out) ==
    IF i > Len(s) THEN out \o Rest(s, pos)
    ELSE IF /\ s[i].k = "match"
            /\ i + 1 <= Len(s) /\ s[i + 1].k = "{"
            /\ FirstRBrace(s, i + 2) # 0
         THEN LET e == FirstRBrace(s, i + 2)
              IN  MatchPass(s, e + 1, e + 1,
                      (out \o append_prefix(s, i, i)) \o <<MatchEmitted(s[i], SubSeq(s, i + 2, e - 1))>>)
         ELSE MatchPass(s, pos, i + 1, out)
lower_match_patterns(s) == MatchPass(s, 1, 1, <<>>)

\* what softline_lower adds for a function: CS_HOT when hot, the
\* cs_prof_hit("name"); statement when instrumenting
FnMarks(name, hotFns, instrument) ==
    (IF name \in hotFns THEN {"CS_HOT"} ELSE {}) \cup (IF instrument THEN {"cs_prof_hit"} ELSE {})

\* 1) single-expression fn -> static [CS_HOT] inline ret name(args){ [hit] return (expr); }
RECURSIVE FnExprPass(_, _, _, _, _, _)
FnExprPass(s, pos, i, out, hotFns, instrument) ==
    IF i > Len(s) THEN out \o Rest(s, pos)
    ELSE IF s[i].k = "fn=>"
         THEN FnExprPass(s, i + 1, i + 1,
                  (out \o append_prefix(s, i, i))
                      \o <<Tok("static inline", s[i].name, FnMarks(s[i].name[1], hotFns, instrument), <<>>)>>,
                  hotFns, instrument)
         ELSE FnExprPass(s, pos, i + 1, out, hotFns, instrument)

\* 2) block fn header -> [CS_HOT] ret name(args){ [hit]
RECURSIVE FnHeadPass(_, _, _, _, _, _)
FnHeadPass(s, pos, i, out, hotFns, instrument) ==
    IF i > Len(s) THEN out \o Rest(s, pos)
    ELSE IF s[i].k = "fn{" /\ i + 1 <= Len(s) /\ s[i + 1].k = "{"
         THEN FnHeadPass(s, i + 2, i + 2,
                  (out \o append_prefix(s, i, i))
                      \o <<Tok("ret name(args)", s[i].name, FnMarks(s[i].name[1], hotFns, instrument), <<>>),
                           LBrace>>,
                  hotFns, instrument)
         ELSE FnHeadPass(s, pos, i + 1, out, hotFns, instrument)

\* 3) regex_replace: let -> const, var -> (erased)
RECURSIVE LetVarPass(_)
LetVarPass(s) ==
    IF s = <<>> THEN <<>>
    ELSE IF Head(s).k = "let" THEN <<Kw("const")>> \o LetVarPass(Tail(s))
    ELSE IF Head(s).k = "var" THEN LetVarPass(Tail(s))
    ELSE <<Head(s)>> \o LetVarPass(Tail(s))

softline_lower(s, softline_on, hotFns, instrument) ==
    IF ~softline_on THEN s
    ELSE LetVarPass(FnHeadPass(FnExprPass(s, 1, 1, <<>>, hotFns, instrument),
                               1, 1, <<>>, hotFns, instrument))

\* the statements a source is made of
Atoms ==
    { << Text("x;") >>,
      << EnumDecl(StandardPair[1], {"A", "B"}) >>,
      << Match("v"), LBrace, Text("1 => a();"), Text("_ => b();"), RBrace >>,
      << FnExpr("f") >>,
      << FnHead("g"), LBrace, Text("x;"), RBrace >>,
      << Kw("let"), Text("y = 1;") >>,
      << Kw("var"), Text("z = 2;") >> }

\* @unsafe { stmt }
Unsafe(stmt) == (<<Kw("@unsafe"), LBrace>> \o stmt) \o <<RBrace>>

\* statements with @unsafe blocks nested up to depth d
RECURSIVE Statements(_)
Statements(d) ==
    IF d = 0 THEN Atoms
    ELSE Atoms \cup { Unsafe(st) : st \in Statements(d - 1) }

Sources == { Flatten(ss) : ss \in SeqsUpTo(Statements(MaxNest), MaxStmts) }

LowerInit ==
    /\ lsrc \in Sources
    /\ ltext = lsrc
    /\ lhot \in {{}, {"f", "g"}}
    /\ linst \in BOOLEAN
    /\ lpass = "source"
    /\ lround = 1
    /\ lfirst = <<>>

\* match blocks whose arms are blocks
MatchAtoms ==
    { << Text("x;") >>,
      << Match("v"), LBrace, Text("1 => a();"), Text("_ => b();"), RBrace >>,
      << Match("v"), LBrace, ArmHead("1"), LBrace, Text("a();"), RBrace,
         Text("_ => b();"), RBrace >>,
      << Match("w"), LBrace, ArmHead("1"), LBrace, Text("a();"), Text("c();"), RBrace, RBrace >> }

MatchSources == { Flatten(ss) : ss \in SeqsUpTo(MatchAtoms, MaxStmts) }

MatchInit ==
    /\ lsrc \in MatchSources
    /\ ltext = lsrc
    /\ lhot \in {{}, {"f", "g"}}
    /\ linst \in BOOLEAN
    /\ lpass = "source"
    /\ lround = 1
    /\ lfirst = <<>>

\* a block that is opened and never closed
UnclosedBlocks ==
    { << Kw("@unsafe"), LBrace, Text("x;") >>,
      << Match("v"), LBrace, Text("1 => a();") >> }

\* sources that end in an unclosed block
UnclosedSources ==
    { Flatten(ss) \o u : ss \in SeqsUpTo(Atoms, MaxStmts - 1), u \in UnclosedBlocks }

UnclosedInit ==
    /\ lsrc \in UnclosedSources
    /\ ltext = lsrc
    /\ lhot \in {{}, {"f", "g"}}
    /\ linst \in BOOLEAN
    /\ lpass = "source"
    /\ lround = 1
    /\ lfirst = <<>>

\* 1) lower_enum_bang_and_collect(body, enums)
PassEnum ==
    /\ lpass = "source"
    /\ ltext' = EnumLowered(ltext)
    /\ lpass' = "enum"
    /\ UNCHANGED <<lsrc, lhot, linst, lround, lfirst>>
    /\ UNCHANGED notLower

\* 3) lower_unsafe_blocks(enumLowered)
PassUnsafe ==
    /\ lpass = "enum"
    /\ ltext' = lower_unsafe_blocks(ltext)
    /\ lpass' = "unsafe"
    /\ UNCHANGED <<lsrc, lhot, linst, lround, lfirst>>
    /\ UNCHANGED notLower

\* lower_match_patterns(unsafeLowered)
PassMatch ==
    /\ lpass = "unsafe"
    /\ ltext' = lower_match_patterns(ltext)
    /\ lpass' = "match"
    /\ UNCHANGED <<lsrc, lhot, linst, lround, lfirst>>
    /\ UNCHANGED notLower

\* softline_lower(matchLowered, cfg.softline, hotFns, instrument)
PassSoftline ==
    /\ lpass = "match"
    /\ ltext' = softline_lower(ltext, TRUE, lhot, linst)
    /\ lpass' = "softline"
    /\ UNCHANGED <<lsrc, lhot, linst, lround, lfirst>>
    /\ UNCHANGED notLower

\* the pipeline is given its own output
RunAgain ==
    /\ lpass = "softline"
    /\ lround = 1
    /\ lfirst' = ltext
    /\ lround' = 2
    /\ lpass' = "source"
    /\ UNCHANGED <<lsrc, ltext, lhot, linst>>
    /\ UNCHANGED notLower

LowerNext == PassEnum \/ PassUnsafe \/ PassMatch \/ PassSoftline \/ RunAgain

LowerIdle ==
    /\ lsrc = <<>> /\ ltext = <<>> /\ lhot = {} /\ linst = FALSE
    /\ lpass = "idle" /\ lround = 0 /\ lfirst = <<>>

\* ============================================================ build driver
\* One invocation of a driver: main of cscriptc.cpp ("main"), main of
\* alternate_cscriptc.cpp ("alternate"), cs_ritual::build_two_pass_ritual
\* ("ritual").  The toolchain, the instrumented program and the user at the
\* guardian prompt are the environment.
Variants == {"main", "alternate", "ritual"}
ImplOf(v) == IF v = "alternate" THEN "alternate" ELSE "cscriptc"

\* what system() returns for a build or for the instrumented run
ToolRcs == {0, 1}
\* the counts file the instrumented run leaves at profPath
RunFiles == { NoFile, << <<NameW("f"), NumW(1)>> >> }
\* select_hot_functions(counts, 16)
HotLimit == 16
\* the counts file an earlier invocation may have left at profPath
StaleFile == << <<NameW("g"), NumW(2)>> >>

\* mutant of ProfileAtRunStart: profPath is not cleared before the run
ProfileAtRunStart_Kept(file) == file

\* profPath = write_temp("cscript_profile.txt", ""); rm_file(profPath):
\* the file at the fixed path is truncated and removed
ProfileAtRunStart(file) == NoFile

\* bodies given to a driver
DrvBodies ==
    { <<>>,
      << EnumDecl(StandardPair[1], {"A", "B"}), Open(StandardPair[1]),
         Case("A"), Case("B"), End(StandardPair[1]) >>,
      << EnumDecl(StandardPair[1], {"A", "B"}), Open(StandardPair[1]),
         Case("A"), End(StandardPair[1]) >>,
      << Open(StandardPair[1]) >> }

\* Config after the directives were read, and what the environment holds:
\* profile (@profile on), relaxed (@warn relaxed, ritual only), protectedOut
\* (is_protected_path(cfg.out) with the guardian on and no CS_GUARDIAN_AUTOYES)
DrvConfig(profile, relaxed, protectedOut) ==
    [profile |-> profile, relaxed |-> relaxed, protectedOut |-> protectedOut]

\* main of cscriptc.cpp never fills bodyLines and never reads a directive:
\* its body is empty and cfg.profile keeps its default
DrvConfigs(v) ==
    IF v = "main" THEN { DrvConfig(FALSE, FALSE, g) : g \in BOOLEAN }
    ELSE IF v = "alternate" THEN { DrvConfig(pr, FALSE, FALSE) : pr \in BOOLEAN }
    ELSE { DrvConfig(pr, rx, FALSE) : pr \in BOOLEAN, rx \in BOOLEAN }
BodyOf(v, src) == IF v = "main" THEN <<>> ELSE src

\* the result of the driver when a stage fails
CheckFailedRc(v) == 1
InstrumentedFailedRc(v, rc) == IF v = "main" THEN 3 ELSE IF v = "alternate" THEN 1 ELSE rc
GuardianDeclinedRc(v) == 6
FinalFailedRc(v, rc) == IF v = "main" THEN 4 ELSE IF v = "alternate" THEN 1 ELSE rc

\* mutant of AfterCheck: the result of the check is ignored
AfterCheck_Ignored(res) == "lowered"

\* exit(1) / throw out of check_exhaustiveness_or_die, or on to the lowering
AfterCheck(res) == IF res.outcome = "ok" THEN "lowered" ELSE "exit"

\* mutant of AfterInstrumentedBuild: a failed instrumented build is not fatal
AfterInstrumentedBuild_Continue(rc) == "built"

\* if (build_once(s1, tempExeProfile, true) != 0) return 3 / throw / return rr
AfterInstrumentedBuild(rc) == IF rc # 0 THEN "exit" ELSE "built"

\* mutant of AfterRun: a failed instrumented run ends the invocation
AfterRun_Fatal(rcRun) == IF rcRun # 0 THEN "exit" ELSE "ran"

\* if (rcRun != 0) warning; the driver proceeds either way
AfterRun(rcRun) == "ran"

\* --show-c (cfg.show_c), and the ritual's --emit-obj and --relaxed
ExtraCli(show_c, emit_obj, relaxed_cleanup) ==
    [show_c |-> show_c, emit_obj |-> emit_obj, relaxed_cleanup |-> relaxed_cleanup]

Switches(v) ==
    IF v = "ritual" THEN { ExtraCli(FALSE, eo, rc) : eo \in BOOLEAN, rc \in BOOLEAN }
    ELSE { ExtraCli(sc, FALSE, FALSE) : sc \in BOOLEAN }

\* the temporary translation unit stays: if (!cfg.show_c) rm_file(cpath) in
\* build_once, if (!xcli.relaxed_cleanup) rm_file(cpath) in build_once_C
KeepsUnit(v, x) == IF v = "ritual" THEN x.relaxed_cleanup ELSE x.show_c

\* the file the toolchain writes: out, or objOut = out + ".o" under --emit-obj
BuildOutput(v, x, out) == IF v = "ritual" /\ x.emit_obj THEN out \o ".o" ELSE out

\* build_once / build_once_C: write_temp(cpath), run_cmd, rm_file(cpath); the
\* toolchain writes its output when it succeeds
AfterBuildOnce(files, v, x, rc, out) ==
    (files \cup (IF KeepsUnit(v, x) THEN {"cpath"} ELSE {}))
        \cup (IF rc = 0 THEN {BuildOutput(v, x, out)} ELSE {})

\* rm_file(profPath); rm_file(tempExeProfile), in the ritual unless --relaxed
AfterProfileRead(files, v, x) ==
    IF v = "ritual" /\ x.relaxed_cleanup THEN files
    ELSE files \ {"profPath", "tempExe"}

Logged(e) == \E j \in 1..Len(dlog) : dlog[j] = e

DrvInit ==
    /\ variant \in Variants
    /\ dcfg \in DrvConfigs(variant)
    /\ \E src \in DrvBodies : body = BodyOf(variant, src)
    /\ impl = ImplOf(variant)
    /\ enums = EmptyEnums
    /\ xres = Accepted
    /\ xpc = "idle"
    /\ xout = <<>>
    /\ dpc = "start"
    /\ drc = 0
    /\ dlog = <<>>
    /\ dprof \in {NoFile, StaleFile}
    /\ dhot = {}
    /\ dx \in Switches(variant)
    /\ dfiles = {}

\* 1) lower_enum_bang_and_collect(body, enums)
DrvLowerEnums ==
    /\ dpc = "start"
    /\ enums' = CollectEnums(impl, body)
    /\ xout' = LoweredEnums(impl, body)
    /\ dpc' = "collected"
    /\ UNCHANGED <<variant, dcfg, drc, dlog, dprof, dhot, dx, dfiles, impl, body, xres, xpc>>
    /\ UNCHANGED notDrv

\* 2) check_exhaustiveness_or_die(body, enums); under @warn relaxed the
\* ritual calls check_exhaustiveness_relaxed(body, enums, true) instead,
\* which prints what it finds as warnings and returns 0
DrvCheck ==
    /\ dpc = "collected"
    /\ LET res == ScanSites(impl, body, enums, 1) IN
       IF variant = "ritual" /\ dcfg.relaxed
       THEN /\ xres' = Accepted
            /\ dpc' = "lowered"
            /\ dlog' = IF res.outcome = "ok" THEN dlog ELSE Append(dlog, "check:warning")
            /\ drc' = drc
       ELSE /\ xres' = res
            /\ dpc' = AfterCheck(res)
            /\ dlog' = IF res.outcome = "ok" THEN dlog ELSE Append(dlog, "check:error")
            /\ drc' = IF res.outcome = "ok" THEN drc ELSE CheckFailedRc(variant)
    /\ UNCHANGED <<variant, dcfg, dprof, dhot, dx, dfiles, impl, body, enums, xpc, xout>>
    /\ UNCHANGED notDrv

\* pass 1: build_once(s1, tempExeProfile, /*defineProfile*/true)
DrvBuildInstrumented ==
    /\ dpc = "lowered"
    /\ dcfg.profile
    /\ \E rc \in ToolRcs :
          /\ dlog' = Append(dlog, IF rc = 0 THEN "build1:ok" ELSE "build1:failed")
          /\ dpc' = AfterInstrumentedBuild(rc)
          /\ drc' = IF rc # 0 THEN InstrumentedFailedRc(variant, rc) ELSE drc
          /\ dfiles' = AfterBuildOnce(dfiles, variant, dx, rc, "tempExe")
    /\ UNCHANGED <<variant, dcfg, dprof, dhot, dx, exhVars>>
    /\ UNCHANGED notDrv

\* profPath cleared, then run_exe_with_env(tempExeProfile, "CS_PROFILE_OUT",
\* profPath), which writes the file or does not; a non-zero rcRun prints the
\* warning
DrvRunInstrumented ==
    /\ dpc = "built"
    /\ \E rcRun \in ToolRcs, file \in RunFiles :
          /\ "tempExe" \notin dfiles => (rcRun # 0 /\ file = NoFile)
          /\ dprof' = IF file = NoFile THEN ProfileAtRunStart(dprof) ELSE file
          /\ dfiles' = IF file = NoFile THEN dfiles ELSE dfiles \cup {"profPath"}
          /\ dlog' = IF rcRun = 0 THEN Append(dlog, "run:ok")
                     ELSE dlog \o <<"run:failed", "run:warning">>
          /\ dpc' = AfterRun(rcRun)
          /\ drc' = IF AfterRun(rcRun) = "exit" THEN 1 ELSE drc
    /\ UNCHANGED <<variant, dcfg, dhot, dx, exhVars>>
    /\ UNCHANGED notDrv

\* counts = read_profile_counts(profPath); hotFns = select_hot_functions(counts, 16)
DrvReadProfile ==
    /\ dpc = "ran"
    /\ dhot' \in select_hot_functions(read_profile_counts(dprof), HotLimit)
    /\ dlog' = Append(dlog, "profile:read")
    /\ dpc' = "profiled"
    /\ dfiles' = AfterProfileRead(dfiles, variant, dx)
    /\ UNCHANGED <<variant, dcfg, drc, dprof, dx, exhVars>>
    /\ UNCHANGED notDrv

\* the PGO block is over, or there was none
BeforeFinal == dpc = "profiled" \/ (dpc = "lowered" /\ ~dcfg.profile)

\* main of cscriptc.cpp: guardian_confirm for a protected output path
DrvGuardianOut ==
    /\ BeforeFinal
    /\ variant = "main" /\ dcfg.protectedOut
    /\ \E yes \in BOOLEAN :
          IF yes
          THEN /\ dpc' = "confirmed"
               /\ dlog' = Append(dlog, "guardian:yes")
               /\ drc' = drc
          ELSE /\ dpc' = "exit"
               /\ dlog' = Append(dlog, "guardian:declined")
               /\ drc' = GuardianDeclinedRc(variant)
    /\ UNCHANGED <<variant, dcfg, dprof, dhot, dx, dfiles, exhVars>>
    /\ UNCHANGED notDrv

\* final pass: build_once(csrc, cfg.out, /*defineProfile*/false)
DrvBuildFinal ==
    /\ \/ dpc = "confirmed"
       \/ BeforeFinal /\ ~(variant = "main" /\ dcfg.protectedOut)
    /\ \E rc \in ToolRcs :
          /\ dlog' = Append(dlog, IF rc = 0 THEN "build2:ok" ELSE "build2:failed")
          /\ drc' = IF rc # 0 THEN FinalFailedRc(variant, rc) ELSE 0
          /\ dfiles' = AfterBuildOnce(dfiles, variant, dx, rc, "out")
    /\ dpc' = "exit"
    /\ UNCHANGED <<variant, dcfg, dprof, dhot, dx, exhVars>>
    /\ UNCHANGED notDrv

DrvNext ==
    \/ DrvLowerEnums
    \/ DrvCheck
    \/ DrvBuildInstrumented
    \/ DrvRunInstrumented
    \/ DrvReadProfile
    \/ DrvGuardianOut
    \/ DrvBuildFinal

DrvIdle ==
    /\ variant = "main" /\ dcfg = DrvConfig(FALSE, FALSE, FALSE) /\ dpc = "idle"
    /\ drc = 0 /\ dlog = <<>> /\ dprof = NoFile /\ dhot = {}
    /\ dx = ExtraCli(FALSE, FALSE, FALSE) /\ dfiles = {}

\* ================================= the two passes of a profiling invocation
\* What each driver hands to the toolchain in the instrumented pass and in
\* the final pass, from the body and the hot set.
PassAtoms ==
    { << Text("x;") >>,
      << Match("v"), LBrace, Text("1 => a();"), Text("_ => b();"), RBrace >>,
      << FnExpr("f") >>,
      << FnHead("g"), LBrace, Text("x;"), RBrace >> }

PassBodies == { Flatten(ss) : ss \in SeqsUpTo(PassAtoms, MaxStmts) }

\* prelude(cfg.hardline)
Prelude == Kw("prelude")

PassInit ==
    /\ pdrv \in Variants
    /\ pbody \in PassBodies
    /\ phot \in SUBSET {"f", "g"}
    /\ plowered = <<>>
    /\ punit1 = <<>>
    /\ punit2 = <<>>
    /\ ppos = "start"

\* enumLowered, unsafeLowered and, in the ritual, matchLowered
SharedLowering(v, src) ==
    LET unsafeLowered == lower_unsafe_blocks(LoweredEnums(ImplOf(v), src))
    IN  IF v = "ritual" THEN lower_match_patterns(unsafeLowered) ELSE unsafeLowered

\* steps 1) to 3): the enum pass, the check on the body, the @unsafe pass
PassesLower ==
    /\ ppos = "start"
    /\ plowered' = SharedLowering(pdrv, pbody)
    /\ ppos' = IF ScanSites(ImplOf(pdrv), pbody, CollectEnums(ImplOf(pdrv), pbody), 1).outcome = "ok"
               THEN "lowered" ELSE "exit"
    /\ UNCHANGED <<pdrv, pbody, phot, punit1, punit2>>
    /\ UNCHANGED notPass

\* inst = softline_lower(<kept text>, cfg.softline, {}, true); s1 = prelude + inst
PassesInstrumented ==
    /\ ppos = "lowered"
    /\ punit1' = <<Prelude>> \o softline_lower(plowered, TRUE, {}, TRUE)
    /\ ppos' = "instrumented"
    /\ UNCHANGED <<pdrv, pbody, phot, plowered, punit2>>
    /\ UNCHANGED notPass

\* main of cscriptc.cpp: matchLowered = lower_match_patterns(unsafeLowered)
\* comes here, in step 5)
FinalInput(v, kept) == IF v = "main" THEN lower_match_patterns(kept) ELSE kept

\* lowered = softline_lower(<text>, cfg.softline, hotFns, false); csrc = prelude + lowered
PassesFinal ==
    /\ ppos = "instrumented"
    /\ punit2' = <<Prelude>> \o softline_lower(FinalInput(pdrv, plowered), TRUE, phot, FALSE)
    /\ ppos' = "final"
    /\ UNCHANGED <<pdrv, pbody, phot, plowered, punit1>>
    /\ UNCHANGED notPass

PassNext == PassesLower \/ PassesInstrumented \/ PassesFinal

PassIdle ==
    /\ pdrv = "main" /\ pbody = <<>> /\ phot = {} /\ plowered = <<>>
    /\ punit1 = <<>> /\ punit2 = <<>> /\ ppos = "idle"

\* =========================================== generated program, one switch
\* enum! T { A, B } lowered to typedef enum T { A, B } T;
Enumerators == <<"A", "B">>
ValueOf(e) == CHOOSE v \in 0..(Len(Enumerators) - 1) : Enumerators[v + 1] = e
Members == { Enumerators[j] : j \in 1..Len(Enumerators) }

\* cs__enum_is_valid_T(v): switch((T)v){ case A: case B: return 1; default: return 0; }
cs__enum_is_valid(v) == \E e \in Members : ValueOf(e) = v

\* cs__enum_assert_T(v): under CS_HARDLINE prints and aborts when v is not
\* valid; otherwise the body is (void)v;
cs__enum_assert(hardline, v) ==
    IF hardline /\ ~cs__enum_is_valid(v) THEN "abort" ELSE "return"

HardlineMessage == "[C-Script hardline] Non-exhaustive switch"
RelaxedMessage == "[warn] non-exhaustive switch"

\* the relaxed macros are defined only in a ritual build under @warn relaxed;
\* CS_HARDLINE follows cfg.hardline in every build
RunInit ==
    /\ CS_HARDLINE \in BOOLEAN
    /\ relaxedMacros \in BOOLEAN
    /\ labels \in SUBSET Members
    /\ cs_v \in 0..MaxValue
    /\ cs_hit = FALSE
    /\ stderrOut = <<>>
    /\ rpc = "site"

\* CS_SWITCH_EXHAUSTIVE(T, expr) and the CS_CASE labels: int __cs_hit=0;
\* switch(__cs_v){ case x: __cs_hit=1 ... default: break; }
RunSwitch ==
    /\ rpc = "site"
    /\ cs_hit' = \E e \in labels : ValueOf(e) = cs_v
    /\ rpc' = "switched"
    /\ UNCHANGED <<CS_HARDLINE, relaxedMacros, labels, cs_v, stderrOut>>
    /\ UNCHANGED notRun

\* CS_SWITCH_END(T, expr): if(!__cs_hit) cs__enum_assert_T(__cs_v);
RunSwitchEnd ==
    /\ rpc = "switched"
    /\ ~relaxedMacros
    /\ LET r == IF cs_hit THEN "return" ELSE cs__enum_assert(CS_HARDLINE, cs_v) IN
       /\ stderrOut' = IF r = "abort" THEN Append(stderrOut, HardlineMessage) ELSE stderrOut
       /\ rpc' = IF r = "abort" THEN "aborted" ELSE "continued"
    /\ UNCHANGED <<CS_HARDLINE, relaxedMacros, labels, cs_v, cs_hit>>
    /\ UNCHANGED notRun

\* CS_SWITCH_RELAXED_END(T, expr): (void)__cs_hit;
\* if (!cs__enum_is_valid_T((int)__cs_v)) fprintf(stderr, "[warn] ...")
RunSwitchRelaxedEnd ==
    /\ rpc = "switched"
    /\ relaxedMacros
    /\ stderrOut' = IF ~cs__enum_is_valid(cs_v) THEN Append(stderrOut, RelaxedMessage)
                    ELSE stderrOut
    /\ rpc' = "continued"
    /\ UNCHANGED <<CS_HARDLINE, relaxedMacros, labels, cs_v, cs_hit>>
    /\ UNCHANGED notRun

RunNext == RunSwitch \/ RunSwitchEnd \/ RunSwitchRelaxedEnd

RunIdle ==
    /\ CS_HARDLINE = FALSE /\ relaxedMacros = FALSE /\ labels = {} /\ cs_v = 0
    /\ cs_hit = FALSE /\ stderrOut = <<>> /\ rpc = "idle"

\* ======================================= threads of one process in cs_vral
\* The threads of one process share g_db, g_total, g_loaded and g_mu.  A call
\* of learn_update or get_stat is the steps of its thread: the lock_guard, then
\* load_db_unlocked and the reads of the body, then its writes and
\* save_db_unlocked, then the return, which unlocks.
Threads == {1, 2}
ThrKey == Arms[1]
Calls == {"learn_update", "get_stat"}
View(s, total) == [s |-> s, total |-> total]
NoView == View(EmptyStat, 0)

\* mutant of MutexFree: the lock_guard never waits
MutexFree_Always(mu) == TRUE

\* std::lock_guard<std::mutex> lk(g_mu) returns once no thread holds g_mu
MutexFree(mu) == mu = 0

\* the file is absent, or as save_db_unlocked of an earlier run left it
ThrStores ==
    { [exists |-> FALSE, lines |-> EmptyDb],
      Persisted(EarlierDb),
      Persisted([k \in {ThrKey} |-> LearnStat(1, DOne, DOne, DOne)]) }

ThrInit ==
    /\ t_file \in ThrStores
    /\ t_db = EmptyDb
    /\ t_total = 0
    /\ t_loaded = FALSE
    /\ t_mu = 0
    /\ t_pc = [t \in Threads |-> "out"]
    /\ t_call = [t \in Threads |-> "none"]
    /\ t_s = [t \in Threads |-> NoView]
    /\ t_left \in [Threads -> 1..MaxUpdates]
    /\ t_done = [t \in Threads |-> 0]
    /\ t_base = NoView

\* std::lock_guard<std::mutex> lk(g_mu) of learn_update or get_stat
ThrLock(t) ==
    /\ t_pc[t] = "out"
    /\ t_left[t] > 0
    /\ MutexFree(t_mu)
    /\ \E c \in Calls : t_call' = [t_call EXCEPT ![t] = c]
    /\ t_mu' = t
    /\ t_pc' = [t_pc EXCEPT ![t] = "locked"]
    /\ UNCHANGED <<t_file, t_db, t_total, t_loaded, t_s, t_left, t_done, t_base>>
    /\ UNCHANGED notThr

\* load_db_unlocked, then the body's reads of g_db[key] and g_total
ThrLoad(t) ==
    /\ t_pc[t] = "locked"
    /\  LET db0 == IF t_loaded THEN t_db
                   ELSE IF t_file.exists THEN t_file.lines ELSE EmptyDb
            total0 == IF t_loaded THEN t_total ELSE SumN(db0, DOMAIN db0)
        IN  /\ t_db' = db0
            /\ t_total' = total0
            /\ t_base' = IF t_loaded THEN t_base ELSE View(StatOf(db0, ThrKey), total0)
            /\ t_s' = [t_s EXCEPT ![t] = View(StatOf(db0, ThrKey), total0)]
    /\ t_loaded' = TRUE
    /\ t_pc' = [t_pc EXCEPT ![t] = "loaded"]
    /\ UNCHANGED <<t_file, t_mu, t_call, t_left, t_done>>
    /\ UNCHANGED notThr

\* learn_update: the writes of s.n++ ... g_total++, then save_db_unlocked
ThrStore(t) ==
    /\ t_pc[t] = "loaded"
    /\ t_call[t] = "learn_update"
    /\ \E reward \in Rewards :
        LET db1 == [k \in DOMAIN t_db \cup {ThrKey} |->
                       IF k = ThrKey THEN UpdatedStat(t_s[t].s, reward) ELSE t_db[k]]
        IN  /\ t_db' = db1
            /\ t_file' = Persisted(db1)
    /\ t_total' = t_s[t].total + 1
    /\ t_pc' = [t_pc EXCEPT ![t] = "stored"]
    /\ UNCHANGED <<t_loaded, t_mu, t_call, t_s, t_left, t_done, t_base>>
    /\ UNCHANGED notThr

\* the return of learn_update or get_stat: ~lock_guard unlocks g_mu
ThrReturn(t) ==
    /\ \/ t_pc[t] = "stored"
       \/ t_pc[t] = "loaded" /\ t_call[t] = "get_stat"
    /\ t_mu' = 0
    /\ t_pc' = [t_pc EXCEPT ![t] = "out"]
    /\ t_left' = [t_left EXCEPT ![t] = t_left[t] - 1]
    /\ t_done' = [t_done EXCEPT ![t] =
                    IF t_call[t] = "learn_update" THEN t_done[t] + 1 ELSE t_done[t]]
    /\ UNCHANGED <<t_file, t_db, t_total, t_loaded, t_call, t_s, t_base>>
    /\ UNCHANGED notThr

ThrNext == \E t \in Threads : ThrLock(t) \/ ThrLoad(t) \/ ThrStore(t) \/ ThrReturn(t)

ThrIdle ==
    /\ t_file = [exists |-> FALSE, lines |-> EmptyDb]
    /\ t_db = EmptyDb
    /\ t_total = 0
    /\ t_loaded = FALSE
    /\ t_mu = 0
    /\ t_pc = [t \in Threads |-> "idle"]
    /\ t_call = [t \in Threads |-> "none"]
    /\ t_s = [t \in Threads |-> NoView]
    /\ t_left = [t \in Threads |-> 0]
    /\ t_done = [t \in Threads |-> 0]
    /\ t_base = NoView

\* ====================================== one run of the instrumented program
\* The translation unit is compiled with CS_PROFILE_BUILD; its softline
\* functions call cs_prof_hit with their own name.
HookNames == {"f", "g"}
Ent(name, count) == [name |-> name, count |-> count]
NoHits == [n \in HookNames |-> 0]
IndexOf(tbl, name) ==
    IF \E i \in 1..Len(tbl) : tbl[i].name = name
    THEN CHOOSE i \in 1..Len(tbl) :
            tbl[i].name = name /\ \A j \in 1..(i - 1) : tbl[j].name # name
    ELSE 0

\* _cs_prof_flush: one "%s %llu" line per entry of the table
Flushed(tbl) == [i \in 1..Len(tbl) |-> <<NameW(tbl[i].name), NumW(tbl[i].count)>>]

\* the handlers exit() runs: the functions registered with atexit
AtExit(fns, tbl, envSet, file) ==
    IF "_cs_prof_flush" \in fns /\ envSet THEN Flushed(tbl) ELSE file

InstrInit ==
    /\ CS_PROFILE_OUT \in BOOLEAN
    /\ GNUC \in BOOLEAN
    /\ atexitFns = {}
    /\ cs_prof_tbl = <<>>
    /\ hitCalls = NoHits
    /\ countsOut = NoFile
    /\ ipc = "start"

\* program start: _cs_prof_ctor runs before main when it carries
\* __attribute__((constructor)), and is never called otherwise
InstrStart ==
    /\ ipc = "start"
    /\ atexitFns' = IF GNUC THEN {"_cs_prof_flush"} ELSE {}
    /\ ipc' = "main"
    /\ UNCHANGED <<CS_PROFILE_OUT, GNUC, cs_prof_tbl, hitCalls, countsOut>>
    /\ UNCHANGED notInstr

\* cs_prof_hit(name)
cs_prof_hit(name) ==
    /\ ipc = "main"
    /\ hitCalls[name] < MaxCount
    /\  LET i == IndexOf(cs_prof_tbl, name)
        IN  cs_prof_tbl' =
               IF i # 0
               THEN [cs_prof_tbl EXCEPT ![i] = Ent(name, cs_prof_tbl[i].count + 1)]
               ELSE Append(cs_prof_tbl, Ent(name, 1))
    /\ hitCalls' = [hitCalls EXCEPT ![name] = hitCalls[name] + 1]
    /\ UNCHANGED <<CS_PROFILE_OUT, GNUC, atexitFns, countsOut, ipc>>
    /\ UNCHANGED notInstr

\* main returns or the program calls exit: the atexit handlers run
InstrExit ==
    /\ ipc = "main"
    /\ countsOut' = AtExit(atexitFns, cs_prof_tbl, CS_PROFILE_OUT, countsOut)
    /\ ipc' = "exited"
    /\ UNCHANGED <<CS_PROFILE_OUT, GNUC, atexitFns, cs_prof_tbl, hitCalls>>
    /\ UNCHANGED notInstr

\* cs__enum_assert_T under CS_HARDLINE calls abort(): the process ends on
\* SIGABRT and no atexit handler runs
InstrAbort ==
    /\ ipc = "main"
    /\ ipc' = "aborted"
    /\ UNCHANGED <<CS_PROFILE_OUT, GNUC, atexitFns, cs_prof_tbl, hitCalls, countsOut>>
    /\ UNCHANGED notInstr

InstrNext ==
    \/ InstrStart
    \/ \E name \in HookNames : cs_prof_hit(name)
    \/ InstrExit
    \/ InstrAbort

InstrIdle ==
    /\ CS_PROFILE_OUT = FALSE /\ GNUC = FALSE /\ atexitFns = {} /\ cs_prof_tbl = <<>>
    /\ hitCalls = NoHits /\ countsOut = NoFile /\ ipc = "idle"

\* ============================================================ specifications
\* the learner alone
InitLearn == LearnInit /\ ProfIdle /\ ExhIdle /\ DrvIdle /\ LowerIdle /\ SharedIdle /\ RunIdle /\ PassIdle /\ ThrIdle /\ InstrIdle

SpecLearn == InitLearn /\ [][LearnNext]_vars

\* the learner over a store earlier runs filled
InitCommit == CommitInit /\ ProfIdle /\ ExhIdle /\ DrvIdle /\ LowerIdle /\ SharedIdle /\ RunIdle /\ PassIdle /\ ThrIdle /\ InstrIdle

SpecCommit == InitCommit /\ [][LearnNext]_vars

\* two processes recording build outcomes for one arm
InitShared ==
    SharedInit /\ ProfIdle /\ LearnIdle /\ ExhIdle /\ DrvIdle /\ LowerIdle /\ RunIdle /\ PassIdle /\ ThrIdle /\ InstrIdle

SpecShared == InitShared /\ [][SharedNext]_vars

\* the PGO helper alone
InitProf == ProfInit /\ LearnIdle /\ ExhIdle /\ DrvIdle /\ LowerIdle /\ SharedIdle /\ RunIdle /\ PassIdle /\ ThrIdle /\ InstrIdle

SpecProf == InitProf /\ [][ProfNext]_vars

\* enum collection and the exhaustiveness check alone
InitExh == ExhInit /\ ProfIdle /\ LearnIdle /\ DrvIdle /\ LowerIdle /\ SharedIdle /\ RunIdle /\ PassIdle /\ ThrIdle /\ InstrIdle

SpecExh == InitExh /\ [][ExhNext]_vars

\* the same over bodies that declare a flags enum
InitFlags == FlagsInit /\ ProfIdle /\ LearnIdle /\ DrvIdle /\ LowerIdle /\ SharedIdle /\ RunIdle /\ PassIdle /\ ThrIdle /\ InstrIdle

SpecFlags == InitFlags /\ [][ExhNext]_vars

\* one invocation of a driver
InitDrv == DrvInit /\ ProfIdle /\ LearnIdle /\ LowerIdle /\ SharedIdle /\ RunIdle /\ PassIdle /\ ThrIdle /\ InstrIdle

SpecDrv == InitDrv /\ [][DrvNext]_vars

\* the lowering pipeline, run on a source and then on its own output
InitLower == LowerInit /\ ProfIdle /\ LearnIdle /\ ExhIdle /\ DrvIdle /\ SharedIdle /\ RunIdle /\ PassIdle /\ ThrIdle /\ InstrIdle

SpecLower == InitLower /\ [][LowerNext]_vars

\* the same pipeline on sources that end in an unclosed block
InitUnclosed ==
    UnclosedInit /\ ProfIdle /\ LearnIdle /\ ExhIdle /\ DrvIdle /\ SharedIdle
    /\ RunIdle /\ PassIdle /\ ThrIdle /\ InstrIdle

SpecUnclosed == InitUnclosed /\ [][LowerNext]_vars

\* the same pipeline on sources with match blocks whose arms are blocks
InitMatch ==
    MatchInit /\ ProfIdle /\ LearnIdle /\ ExhIdle /\ DrvIdle /\ SharedIdle
    /\ RunIdle /\ PassIdle /\ ThrIdle /\ InstrIdle

SpecMatch == InitMatch /\ [][LowerNext]_vars

\* one exhaustive switch of the generated program, run once
InitRun ==
    RunInit /\ ProfIdle /\ LearnIdle /\ ExhIdle /\ DrvIdle /\ LowerIdle /\ SharedIdle
    /\ PassIdle /\ ThrIdle /\ InstrIdle

SpecRun == InitRun /\ [][RunNext]_vars

\* the instrumented and the final pass of one invocation
InitPass ==
    PassInit /\ ProfIdle /\ LearnIdle /\ ExhIdle /\ DrvIdle /\ LowerIdle /\ SharedIdle
    /\ RunIdle /\ ThrIdle /\ InstrIdle

SpecPass == InitPass /\ [][PassNext]_vars

\* threads of one process updating one arm
InitThr ==
    ThrInit /\ ProfIdle /\ LearnIdle /\ ExhIdle /\ DrvIdle /\ LowerIdle /\ SharedIdle
    /\ RunIdle /\ PassIdle /\ InstrIdle

SpecThr == InitThr /\ [][ThrNext]_vars

\* one run of the instrumented program
InitInstr ==
    InstrInit /\ ProfIdle /\ LearnIdle /\ ExhIdle /\ DrvIdle /\ LowerIdle /\ SharedIdle
    /\ RunIdle /\ PassIdle /\ ThrIdle

SpecInstr == InitInstr /\ [][InstrNext]_vars

Warned == \E j \in 1..Len(stderrOut) : stderrOut[j] \in {HardlineMessage, RelaxedMessage}

\* C18: past an exhaustive switch that no case label took, a value outside
\* the member set has aborted the program when CS_HARDLINE is defined, and
\* otherwise has written a warning and let it continue; a value that is a
\* member has neither aborted it nor written a warning.
C18_RuntimeBackstop ==
    rpc \in {"continued", "aborted"} =>
        /\ (~cs__enum_is_valid(cs_v) /\ ~cs_hit) =>
               IF CS_HARDLINE THEN rpc = "aborted" ELSE rpc = "continued" /\ Warned
        /\ cs__enum_is_valid(cs_v) => rpc = "continued" /\ ~Warned

\* the half about members alone
MemberNeverTriggers ==
    rpc \in {"continued", "aborted"} =>
        (cs__enum_is_valid(cs_v) => rpc = "continued" /\ ~Warned)

\* the half about values outside the set, at sites written with CS_SWITCH_END
\* in a hardline build
HardlineAborts ==
    (rpc \in {"continued", "aborted"} /\ CS_HARDLINE /\ ~relaxedMacros /\ ~cs__enum_is_valid(cs_v))
        => rpc = "aborted"

\* the match blocks a text was lowered to
MatchBlocks(s) == SelectSeq(s, LAMBDA t : t.k = "__cs_subj")

\* a match block as a delimiter-balanced pass lowers it: the body runs to the
\* brace that balances the opening one and every arm is kept as written
RECURSIVE BalancedMatch(_, _, _)
BalancedMatch(s, i, out) ==
    IF i > Len(s) THEN out
    ELSE IF s[i].k = "match" /\ i + 1 <= Len(s) /\ s[i + 1].k = "{"
                             /\ CloseIndex(s, i + 2, 1) # 0
         THEN LET e == CloseIndex(s, i + 2, 1)
              IN  BalancedMatch(s, e + 1,
                      Append(out, Tok("__cs_subj", s[i].name, {}, SubSeq(s, i + 2, e - 1))))
         ELSE BalancedMatch(s, i + 1, out)

\* C24: the match pass is delimiter-balanced: every match block is lowered
\* with the body that runs to the balancing brace, a block inside an arm
\* does not end it, and the arms are emitted as written, an arm of several
\* statements whole.
C24_MatchIsBalanced ==
    (lpass = "match" /\ lround = 1) => MatchBlocks(ltext) = BalancedMatch(lsrc, 1, <<>>)

\* the same for match blocks whose arms are single statements
FlatMatchIsBalanced ==
    (lpass = "match" /\ lround = 1 /\ \A j \in 1..Len(lsrc) : lsrc[j].k # "=>")
        => MatchBlocks(ltext) = BalancedMatch(lsrc, 1, <<>>)

\* the text the ordered passes give for a body: enum lowering, @unsafe
\* lowering, match lowering, then the softline step
Pipeline(v, src, hotFns, instrument) ==
    <<Prelude>> \o softline_lower(
        lower_match_patterns(lower_unsafe_blocks(LoweredEnums(ImplOf(v), src))),
        TRUE, hotFns, instrument)

RitualSamePasses ==
    (ppos = "final" /\ pdrv = "ritual") =>
        /\ punit1 = Pipeline(pdrv, pbody, {}, TRUE)
        /\ punit2 = Pipeline(pdrv, pbody, phot, FALSE)

\* the softline functions of a source, in order: fn name(...) -> ret => expr;
\* and fn name(...) -> ret { ... }
IsSoftlineFn(src, j) ==
    src[j].k = "fn=>" \/ (src[j].k = "fn{" /\ j + 1 <= Len(src) /\ src[j + 1].k = "{")
FnNames(src) ==
    LET RECURSIVE From(_)
        From(j) == IF j > Len(src) THEN <<>>
                   ELSE IF IsSoftlineFn(src, j) THEN <<src[j].name[1]>> \o From(j + 1)
                   ELSE From(j + 1)
    IN  From(1)

\* the lowered functions of a text, in order, each with what it carries
IsLoweredFn(t) == t.k \in {"static inline", "ret name(args)"}
LoweredFns(text) ==
    LET fns == SelectSeq(text, IsLoweredFn)
    IN  [j \in 1..Len(fns) |-> <<fns[j].name[1], fns[j].ms>>]

\* C27: in the final text every softline function of the body is there and
\* carries CS_HOT exactly when its name is in the hot set, and none holds a
\* cs_prof_hit hook; in the instrumented text every softline function is
\* there with one hook under its own name and without CS_HOT.
C27_MarksFollowHotSet ==
    ppos = "final" =>
        LET names == FnNames(pbody) IN
        /\ LoweredFns(punit2)
              = [j \in 1..Len(names) |->
                    <<names[j], IF names[j] \in phot THEN {"CS_HOT"} ELSE {}>>]
        /\ LoweredFns(punit1)
              = [j \in 1..Len(names) |-> <<names[j], {"cs_prof_hit"}>>]

\* the same for the functions the texts hold
LoweredMarksFollowHotSet ==
    ppos = "final" =>
        /\ \A j \in 1..Len(punit2) :
              IsLoweredFn(punit2[j]) =>
                  punit2[j].ms = (IF punit2[j].name[1] \in phot THEN {"CS_HOT"} ELSE {})
        /\ \A j \in 1..Len(punit1) :
              IsLoweredFn(punit1[j]) => punit1[j].ms = {"cs_prof_hit"}

\* the places of a stage in the log
Places(es) == { j \in 1..Len(dlog) : dlog[j] \in es }
Build1 == Places({"build1:ok", "build1:failed"})
RunOnce == Places({"run:ok", "run:failed"})
ReadAndSelect == Places({"profile:read"})
Build2 == Places({"build2:ok", "build2:failed"})
Precedes(A, B) == \A a \in A, b \in B : a < b

\* C28: with profiling on, the stages come in the order instrumented build,
\* instrumented run, profile read and hot-set selection, final build; a
\* final build has the selection before it; the instrumented program runs at
\* most once; and what is read is what this run wrote: the counts an earlier
\* invocation left at the path are gone when the run starts.
C28_StagesInOrder ==
    dcfg.profile =>
        /\ Precedes(Build1, RunOnce) /\ Precedes(RunOnce, ReadAndSelect)
        /\ Precedes(ReadAndSelect, Build2)
        /\ Build2 # {} => (ReadAndSelect # {} /\ RunOnce # {} /\ Build1 # {})
        /\ Cardinality(RunOnce) <= 1 /\ Cardinality(Build1) <= 1
        /\ Cardinality(ReadAndSelect) <= 1 /\ Cardinality(Build2) <= 1
        /\ dpc \in {"ran", "profiled"} => dprof # StaleFile
        /\ "g" \notin dhot

\* an invocation that found stale counts at the path, whose instrumented
\* program wrote nothing, and that went on to the final build
C28_Witness ==
    /\ dcfg.profile /\ dpc = "exit"
    /\ Logged("run:failed") /\ Logged("profile:read") /\ Logged("build2:ok")
    /\ dprof = NoFile /\ dhot = {}
    /\ variant = "ritual"

\* a declaration as the language writes it: enum! T { ... } or
\* enum_flags! T { ... }, nothing nested in the body
Declarations(src) ==
    { src[j] : j \in { h \in 1..Len(src) : src[h].k \in {"enum!", "enum_flags!"} /\ src[h].inner = <<>> } }

InText(k, name, ms) ==
    \E j \in 1..Len(xout) : xout[j].k = k /\ xout[j].name = name /\ xout[j].ms = ms

Registered(d) == d.name \in DOMAIN enums /\ enums[d.name].members = d.ms

\* the type definition and the validity predicate over the full member set
TypeAndPredicate(d) ==
    /\ InText("typedef enum", d.name, d.ms)
    /\ InText("cs__enum_is_valid_", d.name, d.ms)

AssertHelper(d) == InText("cs__enum_assert_", d.name, {})

\* C17: after enum lowering every enum declaration of the source, Standard
\* or Flags, is in the registry with its full member set, and the text holds
\* its C type definition and its validity predicate; the runtime assertion
\* helper is emitted for the Standard ones and only for them.
C17_EveryDeclarationLowered ==
    xpc \in {"collected", "checked", "died"} =>
        \A d \in Declarations(body) :
            /\ Registered(d)
            /\ TypeAndPredicate(d)
            /\ AssertHelper(d) <=> d.k = "enum!"

\* the same for the Standard declarations alone
StandardLowered ==
    xpc \in {"collected", "checked", "died"} =>
        \A d \in Declarations(body) :
            d.k = "enum!" => Registered(d) /\ TypeAndPredicate(d) /\ AssertHelper(d)

\* ------------------------------------------------- properties of the passes
\* opening braces of s that no closing brace matches
RECURSIVE BraceDepth(_, _)
BraceDepth(s, depth) ==
    IF s = <<>> THEN depth
    ELSE BraceDepth(Tail(s),
                    IF Head(s) = LBrace THEN depth + 1
                    ELSE IF Head(s) = RBrace /\ depth > 0 THEN depth - 1
                    ELSE depth)

CountOf(s, a, b, kind) == Cardinality({ j \in a..b : s[j].k = kind })

\* the brace that balances the one at open: the first place after it where
\* as many braces have been closed as opened, or 0
BalancingBrace(s, open) ==
    LET hits == { e \in (open + 1)..Len(s) : CountOf(s, open, e, "{") = CountOf(s, open, e, "}") }
    IN  IF hits = {} THEN 0 ELSE CHOOSE e \in hits : \A h \in hits : e <= h

\* a text with every `@unsafe { ... }` region, from i on, replaced by
\* { CS_UNSAFE_BEGIN; ... CS_UNSAFE_END; } up to its balancing brace
RECURSIVE UnsafeBalanced(_, _)
UnsafeBalanced(s, i) ==
    IF i > Len(s) THEN <<>>
    ELSE IF /\ s[i].k = "@unsafe" /\ i + 1 <= Len(s) /\ s[i + 1].k = "{"
            /\ BalancingBrace(s, i + 1) # 0
         THEN LET e == BalancingBrace(s, i + 1)
              IN  ((<<LBrace, Kw("CS_UNSAFE_BEGIN;")>> \o SubSeq(s, i + 2, e - 1))
                      \o <<Kw("CS_UNSAFE_END;"), RBrace>>) \o UnsafeBalanced(s, e + 1)
         ELSE <<s[i]>> \o UnsafeBalanced(s, i + 1)

\* C25: the @unsafe pass ends each region at the brace that balances its
\* opening brace: the text it returns is the text it was given with each
\* region turned into { CS_UNSAFE_BEGIN; <the region, unchanged>
\* CS_UNSAFE_END; }, one BEGIN and one END per region, each END right before
\* a closing brace, and everything outside the regions unchanged.
C25_UnsafeIsBalanced ==
    [][(lpass = "enum" /\ lpass' = "unsafe") =>
          /\ ltext' = UnsafeBalanced(ltext, 1)
          /\ CountOf(ltext, 1, Len(ltext), "CS_UNSAFE_BEGIN;")
                + CountOf(ltext, 1, Len(ltext), "CS_UNSAFE_END;") = 0 =>
                /\ CountOf(ltext', 1, Len(ltext'), "CS_UNSAFE_BEGIN;")
                      = CountOf(ltext', 1, Len(ltext'), "CS_UNSAFE_END;")
                /\ \A j \in 1..Len(ltext') :
                      ltext'[j].k = "CS_UNSAFE_END;"
                          => (j < Len(ltext') /\ ltext'[j + 1] = RBrace)]_vars

\* a region that holds a brace pair of its own, after text outside it
C25_Witness ==
    /\ lpass = "unsafe" /\ lround = 1
    /\ lsrc = <<Text("x;")>> \o Unsafe(Unsafe(<<Text("x;")>>))
    /\ ltext = <<Text("x;"), LBrace, Kw("CS_UNSAFE_BEGIN;")>>
                  \o Unsafe(<<Text("x;")>>) \o <<Kw("CS_UNSAFE_END;"), RBrace>>

\* C19: a source with an `@unsafe {` or `match (...) {` block whose closing
\* brace is missing stops the pipeline: no pass sequence runs to its end and
\* yields the text that goes to the toolchain.
C19_UnmatchedDelimiterAborts ==
    BraceDepth(lsrc, 0) > 0 => lpass # "softline"

\* C4: the pipeline leaves its own output unchanged: in the second round no
\* pass changes the text.
C4_PipelineIdempotent ==
    lround = 2 => ltext = lfirst

\* ------------------------------------------------ properties of the drivers
\* what an invocation creates besides its output
Temporaries == {"cpath", "tempExe", "tempExe.o", "profPath"}
RetentionRequested == dx.show_c \/ dx.relaxed_cleanup

\* C16: when an invocation has ended, on any exit path, none of its temporary
\* translation units, instrumented binaries or profile files is on disk,
\* unless --show-c or --relaxed asked to keep them.
C16_NoTemporariesLeft ==
    (dpc = "exit" /\ ~RetentionRequested) => dfiles \cap Temporaries = {}

ToolStarted ==
    \E j \in 1..Len(dlog) :
        dlog[j] \in {"build1:ok", "build1:failed", "run:ok", "run:failed",
                     "build2:ok", "build2:failed"}

\* C3: once the exhaustiveness check has failed the invocation has ended
\* with a non-zero result, and it has started no build and no instrumented run.
C3_CheckFailureStopsBeforeBuild ==
    xres.outcome # "ok" => (dpc = "exit" /\ drc # 0 /\ ~ToolStarted)

\* a driver with profiling on whose check found a member without a case
C3_Witness ==
    /\ dcfg.profile
    /\ xres.outcome = "non-exhaustive"
    /\ Logged("check:error")
    /\ dpc = "exit"

\* the instrumented build succeeded, the run exited non-zero and left no
\* counts file
RunFailedWithoutCounts ==
    Logged("build1:ok") /\ Logged("run:failed") /\ dprof = NoFile

\* C8: with profiling on, after an instrumented run that exits non-zero and
\* leaves no counts file the warning has been printed, the hot set stays
\* empty, the invocation does not end before the final build, and it
\* returns 0 when the final build succeeds.
C8_GracefulDegradation ==
    (dcfg.profile /\ RunFailedWithoutCounts) =>
        /\ Logged("run:warning")
        /\ dhot = {}
        /\ dpc = "exit" => (Logged("build2:ok") \/ Logged("build2:failed"))
        /\ Logged("build2:ok") => (dpc = "exit" /\ drc = 0)

\* the invocation returned 0 after such a run
C8_Witness ==
    /\ dcfg.profile
    /\ RunFailedWithoutCounts
    /\ Logged("profile:read")
    /\ Logged("build2:ok")
    /\ dpc = "exit"
    /\ drc = 0

\* C9: with profiling on, after a failed instrumented build the invocation
\* has ended with a non-zero result without running the instrumented
\* binary, reading a profile or starting the final build.
C9_InstrumentedBuildFailureIsFatal ==
    (dcfg.profile /\ Logged("build1:failed")) =>
        /\ dpc = "exit"
        /\ drc # 0
        /\ \A j \in 1..Len(dlog) :
              dlog[j] \notin {"run:ok", "run:failed", "profile:read", "build2:ok", "build2:failed"}

\* the ritual after a failed instrumented build
C9_Witness ==
    /\ variant = "ritual"
    /\ dcfg.profile
    /\ Logged("build1:failed")
    /\ dpc = "exit"

\* ------------------------------------------------ properties of the learner
\* C12: when the greedy branch has scored the arms, the exploration bonus of
\* an arm with zero trials is at least the bonus of every arm that has trials.
C12_UntriedBonusIsMaximal ==
    (lastOp.name = "build_cmd_adaptive:greedy" /\ lpc = "run") =>
        LET totalN == IF g_total # 0 THEN g_total ELSE 1
        IN  \A i \in 1..Len(Arms) :
              StatOf(g_db, Arms[i]).n > 0 =>
                  BonusMicro(0, totalN) >= BonusMicro(StatOf(g_db, Arms[i]).n, totalN)

\* C14: when both processes have made their learn_update calls for the arm,
\* the trials the file holds for it are the trials it held before plus the
\* number of calls made (no update is lost).
C14_NoLostUpdate ==
    (\A p \in Procs : p_left[p] = 0 /\ p_pc[p] = "run") =>
        StatOf(sfile.lines, SharedKey).n = sinit + sdone

\* the store cannot be read at this call's load, or cannot be written
LoadFails == ~g_loaded /\ ~Readable
StoreFails == LoadFails \/ ~Writable

\* a step that is a call of learn_update or build_cmd_adaptive
CallStep == lpc = "run" /\ lastOp'.name # "none"

\* C15: a call made while the store cannot be loaded works on empty
\* statistics, and a call made while the store cannot be loaded or written
\* returns with g_db updated.
C15_StoreFailureNeverBlocks ==
    [][ CallStep =>
          /\ (LoadFails /\ lpc' = "run") => lastOp'.pre = EmptyStat
          /\ StoreFails =>
                /\ lpc' = "run"
                /\ lastOp'.key \in DOMAIN g_db'
                /\ lastOp'.name = "learn_update" =>
                      g_db'[lastOp'.key] = UpdatedStat(lastOp'.pre, lastOp'.reward)
      ]_vars

\* C20: a call of build_cmd_adaptive, in either branch, returns one of the
\* eight candidate arms, and g_mu is not requested while the caller holds it
\* (the call is not left waiting for its own lock).
C20_AdaptiveReturnsAnArm ==
    lastOp.name \in {"build_cmd_adaptive:explore", "build_cmd_adaptive:greedy"} =>
        /\ lpc = "run"
        /\ g_mu = "free"
        /\ outChoice \in ArmKeys
        /\ outChoice = lastOp.key

\* a cs_vral call of this process has returned
Returned == lastOp.name # "none" /\ lpc = "run"

\* C13: a process opens the store for reading at most once, and when a call
\* that mutates g_db has returned (the file being writable) the file holds one
\* line per key of g_db with that key's current n, sum, ema and last.
C13_ReadOnceAndFlushed ==
    /\ lreads <= 1
    /\ (Returned /\ Writable) =>
          /\ dbFile.exists
          /\ dbFile.lines = g_db

\* the time penalty learn_commit subtracted: 1.0 - reward
Penalty(reward) == DAdd(DOne, DNeg(reward))

Committed == lbuild # NoBuild /\ lastOp.name = "learn_update"

\* one update of the chosen arm, -1.0 for a failed build whatever it took,
\* no penalty at duration 0, and a penalty that does not fall as the
\* duration grows
CommitRecorded ==
    /\ lastOp.key = outChoice
    /\ g_db[lastOp.key].n = lastOp.pre.n + 1
    /\ g_db[lastOp.key].last = lastOp.reward
    /\ lbuild.rc # 0 => lastOp.reward = DMinusOne
    /\ lbuild.rc = 0 =>
          /\ lbuild.ms <= 0 => Penalty(lastOp.reward) = DZero
          /\ \A ms \in Durations :
                ms <= lbuild.ms =>
                    ~DLess(Penalty(lastOp.reward), Penalty(CommitReward(0, ms)))
          /\ \A ms \in Durations : DLess(CommitReward(1, ms), lastOp.reward)

\* C11 (as stated): learn_commit records one update per build, -1.0 for a
\* failed build, and for a successful build 1.0 minus a penalty that is
\* strictly below 0.2, so that the reward is greater than 0.8.
C11_PenaltyStrictlyBelowFifth ==
    Committed =>
        /\ CommitRecorded
        /\ lbuild.rc = 0 =>
              /\ DLess(Penalty(lastOp.reward), Dec(2, 1))
              /\ DLess(Dec(8, 1), lastOp.reward)

\* C11 (amended): the penalty is at most 0.2 and the reward at least 0.8;
\* std::tanh returns exactly 1.0 for a long build.
C11_PenaltyAtMostFifth ==
    Committed =>
        /\ CommitRecorded
        /\ lbuild.rc = 0 =>
              /\ ~DLess(Dec(2, 1), Penalty(lastOp.reward))
              /\ ~DLess(lastOp.reward, Dec(8, 1))

\* a build of 200 s succeeded: the reward is 0.8
C11_Witness ==
    /\ Committed
    /\ lbuild = Build(0, 200000)
    /\ lastOp.reward = Dec(8, 1)
    /\ g_db[outChoice].n = 2

\* C10: every learn_update raises the arm's trials by exactly 1 and sets ema
\* to the reward on the arm's first trial (the arm was absent, or selection
\* had created its zero-trial entry), else to 0.8*ema_prev + 0.2*reward.
C10_UpdateRecurrence ==
    lastOp.name = "learn_update" =>
        LET st == g_db[lastOp.key]
            pre == lastOp.pre
        IN  /\ st.n = pre.n + 1
            /\ st.ema = IF pre.n = 0 THEN lastOp.reward
                        ELSE DAdd(DTenths(pre.ema, 8), DTenths(lastOp.reward, 2))

\* the arm selection chose has been fed 1.0, -1.0 (trials 2, sum 0, ema 0.6)
\* and now 1.0: trials 3, ema 0.68
C10_Witness ==
    /\ lastOp.name = "learn_update"
    /\ lastOp.key = outChoice
    /\ lastOp.reward = DOne
    /\ lastOp.pre = LearnStat(2, DZero, Dec(6, 1), DMinusOne)
    /\ g_db[outChoice].n = 3
    /\ g_db[outChoice].ema = Dec(68, 2)

\* ------------------- properties of the registry and the exhaustiveness check
\* the closing marker of the site opened at a: the first CS_SWITCH_END after
\* it whose type name is the site's, or 0
CloseOf(src, a) ==
    LET hits == { j \in (a + 1)..Len(src) :
                    src[j].k = "CS_SWITCH_END" /\ src[j].name = src[a].name }
    IN  IF hits = {} THEN 0 ELSE CHOOSE j \in hits : \A h \in hits : j <= h

\* the switch sites of a body
SitesOf(src) ==
    { a \in 1..Len(src) : src[a].k = "CS_SWITCH_EXHAUSTIVE" /\ CloseOf(src, a) # 0 }

CasesOf(src, a) ==
    UNION { src[j].ms : j \in { h \in a..CloseOf(src, a) : src[h].k = "CS_CASE" } }

\* the members of the site's enum that no CS_CASE of the site names
MissingAt(src, reg, a) == reg[src[a].name].members \ CasesOf(src, a)

\* the sites over a registered Standard enum that leave a member out
NonExhaustiveSites(src, reg) ==
    { a \in SitesOf(src) : /\ src[a].name \in DOMAIN reg
                           /\ ~reg[src[a].name].is_flags
                           /\ MissingAt(src, reg, a) # {} }

Checked == xpc \in {"checked", "died"}

\* C1: the check ends in a fatal error when some switch site over a
\* registered Standard enum has a member without a CS_CASE inside the site,
\* and a non-exhaustiveness error raised at a switch site is raised for such
\* a site, with exactly the members the site leaves out.
C1_FailsIffMemberMissing ==
    Checked =>
        /\ NonExhaustiveSites(body, enums) # {} => xres.outcome # "ok"
        /\ (xres.outcome = "non-exhaustive" /\ xres.at \in SitesOf(body)) =>
              /\ xres.at \in NonExhaustiveSites(body, enums)
              /\ xres.missing = MissingAt(body, enums, xres.at)

\* the site opened at a lies between the markers of the site opened at o
Inside(src, a, o) == o < a /\ a < CloseOf(src, o)

\* the closing marker the checker pairs with every opening marker is the
\* site's own
OwnEnds(src) ==
    \A a \in SitesOf(src) : FindEndKey(src, src[a].name, a + 1) = CloseOf(src, a)

\* C21: every switch site over a registered Standard enum is checked: when
\* the check accepts the body no such site lacks a case for a member, the
\* sites that lie between the markers of a site of another type included.
C21_EverySiteChecked ==
    (Checked /\ xres.outcome = "ok") =>
        \A a \in SitesOf(body) :
            (body[a].name \in DOMAIN enums /\ ~enums[body[a].name].is_flags)
                => MissingAt(body, enums, a) = {}

\* the same for the sites that lie inside no other site
TopLevelSitesChecked ==
    (Checked /\ xres.outcome = "ok" /\ OwnEnds(body)) =>
        \A a \in SitesOf(body) :
            (/\ body[a].name \in DOMAIN enums
             /\ ~enums[body[a].name].is_flags
             /\ \A o \in SitesOf(body) : ~Inside(body, a, o))
                => MissingAt(body, enums, a) = {}

\* C22: at a switch site over a Standard enum that the check accepted, the
\* identifiers of the CS_CASE labels are the members of the enum exactly:
\* none is missing and none is a label that is no member.
C22_AcceptedCasesEqualMembers ==
    (Checked /\ xres.outcome = "ok") =>
        \A a \in SitesOf(body) :
            (body[a].name \in DOMAIN enums /\ ~enums[body[a].name].is_flags)
                => CasesOf(body, a) = enums[body[a].name].members

OpeningMarkers(src) == { a \in 1..Len(src) : src[a].k = "CS_SWITCH_EXHAUSTIVE" }

\* C23: the closing marker the checker pairs with an opening marker of type
\* T is the first following CS_SWITCH_END whose type name is T itself (none
\* when there is none), not one of a type whose name begins with T, and the
\* cases it collects for the site are those up to that marker.
C23_ClosingMarkerIsExact ==
    Checked =>
        \A a \in OpeningMarkers(body) :
            LET b == FindEndKey(body, body[a].name, a + 1) IN
            /\ b = CloseOf(body, a)
            /\ b # 0 => SeenIn(body, a, b) = CasesOf(body, a)

\* the type is declared with enum_flags! somewhere in the body
FlagsDeclared(src, T) ==
    \E j \in 1..Len(src) :
        \/ src[j].k = "enum_flags!" /\ src[j].name = T
        \/ src[j].inner # <<>> /\ src[j].inner[1].name = T

\* C2: no non-exhaustiveness error is raised for a switch site whose type an
\* enum_flags! declaration declares, whatever its CS_CASE labels cover and
\* whatever the name is.
C2_FlagsNeverRaise ==
    (Checked /\ xres.outcome = "non-exhaustive") => ~FlagsDeclared(body, xres.type)

\* the alternate checker met a site over a registered flags enum that has no
\* CS_CASE at all, and accepted the body
C2_Witness ==
    /\ xpc = "checked"
    /\ impl = "alternate"
    /\ \E a \in SitesOf(body) :
          /\ body[a].name \in DOMAIN enums
          /\ enums[body[a].name].is_flags
          /\ CasesOf(body, a) = {}

\* ------------------------------------------------ properties of the PGO helper
Get(m, k) == IF k \in DOMAIN m THEN m[k] ELSE 0

WellFormed(line) == Len(line) = 2 /\ ~line[1].isnum /\ line[2].isnum

RECURSIVE SumOfLines(_, _)
SumOfLines(file, s) ==
    IF file = <<>> THEN 0
    ELSE (IF WellFormed(Head(file)) /\ Head(file)[1].name = s THEN Head(file)[2].v ELSE 0)
         + SumOfLines(Tail(file), s)

SumFor(file, s) == IF file = NoFile THEN 0 ELSE SumOfLines(file, s)

\* C5: read_profile_counts returns, for every symbol, the sum of the counts of
\* all well-formed `<symbol> <count>` lines of the file; a malformed line is
\* skipped without affecting the well-formed lines before or after it.
C5_SumOfWellFormedLines ==
    ppc # "start" => \A s \in Symbols : Get(counts, s) = SumFor(profFile, s)

Positive(m) == { s \in DOMAIN m : m[s] > 0 }

\* C6: select_hot_functions returns at most topN symbols, all with a positive
\* count, never leaves out a symbol with a strictly greater count than one it
\* selected, and selects every positive symbol when there are at most topN.
C6_HotSetIsTopN ==
    ppc = "selected" =>
        /\ Cardinality(hot) <= topN
        /\ hot \subseteq Positive(counts)
        /\ \A s \in hot : \A u \in DOMAIN counts \ hot : counts[u] <= counts[s]
        /\ Cardinality(Positive(counts)) <= topN => Positive(counts) \subseteq hot

\* a selection that cut through a tie: more positive symbols than topN
C6_Witness ==
    /\ ppc = "selected"
    /\ topN = 2
    /\ Cardinality(hot) = 2
    /\ Cardinality(Positive(counts)) = 3

\* position of a symbol in ascending alphabetical order
Rank(s) == IF s = "f" THEN 1 ELSE IF s = "g" THEN 2 ELSE 3

Before(m, u, s) == m[u] > m[s] \/ (m[u] = m[s] /\ Rank(u) < Rank(s))

CanonicalHot(m, N) ==
    { s \in Positive(m) : Cardinality({ u \in DOMAIN m : Before(m, u, s) }) < N }

\* C7: the hot set is a function of the count map alone: among symbols that
\* tie on count at the cut-off, the alphabetically smallest are selected,
\* whatever order the sort leaves equal-count elements in.
C7_HotSetDeterministic ==
    ppc = "selected" => hot = CanonicalHot(counts, topN)

\* ------------------------------------------------------------------ C29
UpdatesReturned == t_done[1] + t_done[2]
InCall == { t \in Threads : t_pc[t] \in {"locked", "loaded", "stored"} }

\* C29: calls of learn_update and get_stat from the threads of one process
\* are serialized by g_mu: at most one thread is inside a call, g_total
\* equals the sum of the trials over the keys of g_db, and whenever no call
\* is running the arm's trials and g_total have each grown by exactly the
\* number of learn_update calls that returned.
C29_UpdatesSerialized ==
    /\ Cardinality(InCall) <= 1
    /\ t_total = SumN(t_db, DOMAIN t_db)
    /\ (t_loaded /\ InCall = {}) =>
          /\ StatOf(t_db, ThrKey).n = t_base.s.n + UpdatesReturned
          /\ t_total = t_base.total + UpdatesReturned
          /\ t_file.exists /\ UpdatesReturned > 0 => StatOf(t_file.lines, ThrKey).n = StatOf(t_db, ThrKey).n

\* both threads have updated the arm, one of them twice, over a store that
\* already held a trial of it
C29_Witness ==
    /\ InCall = {}
    /\ t_done[1] >= 1 /\ t_done[2] >= 1 /\ UpdatesReturned >= 3
    /\ t_left = [t \in Threads |-> 0]
    /\ t_base.s.n = 1
    /\ StatOf(t_db, ThrKey).n = 1 + UpdatesReturned

\* ------------------------------------------------------------------ C30
\* the file holds one line per name cs_prof_hit was called with, and the
\* count on the line is the number of those calls
IsCountTable(file) ==
    /\ file # NoFile
    /\ Len(file) = Cardinality({ n \in HookNames : hitCalls[n] > 0 })
    /\ \A n \in HookNames :
          hitCalls[n] > 0 =>
             \E i \in 1..Len(file) : file[i] = <<NameW(n), NumW(hitCalls[n])>>

Terminated == ipc \in {"exited", "aborted"}

\* C30: once the instrumented program has terminated, by a normal exit or
\* by abort(), the file at the path in CS_PROFILE_OUT holds the count table:
\* one line per distinct function name, with the number of cs_prof_hit calls
\* made with that name.  (Stated for a build whose constructor registers the
\* flush and a run with CS_PROFILE_OUT set.)
C30_CountsWrittenOnTermination ==
    (Terminated /\ GNUC /\ CS_PROFILE_OUT) => IsCountTable(countsOut)

\* what holds instead: the table is written when the program exits normally
NormalExitFlushes ==
    (ipc = "exited" /\ GNUC /\ CS_PROFILE_OUT) => IsCountTable(countsOut)

====
